---- MODULE Spec2Model ----
(***************************************************************************)
(* Snapshot versioning (welding_registry/versioned.py) and roster          *)
(* materialization (welding_registry/warehouse.py) as a state machine over *)
(* the DuckDB tables the code reads and writes.                            *)
(*                                                                         *)
(* Conventions                                                             *)
(*  - a text value is a sequence of one-character strings; SQL NULL /      *)
(*    Python None is the empty sequence <<>> (the normalizer turns every   *)
(*    blank text into None, so no stored text is the empty string);        *)
(*  - a calendar date is a day number; a nullable date is <<>> (NULL) or   *)
(*    <<d>>;                                                               *)
(*  - a table is a sequence of rows in insertion order; a table that has   *)
(*    a primary key and is only read by key is the set of its rows;        *)
(*  - the full-width letters are the characters "A_fw" and "a_fw", the two *)
(*    characters of the license placeholder are "menkyo_1" and "menkyo_2"; *)
(*  - sha256 / sha1 digests are modelled as injective: a digest is the     *)
(*    value that is hashed.                                                *)
(***************************************************************************)
EXTENDS Integers, Sequences, FiniteSets, TLC

VARIABLES schema, ver_snapshots, ver_snapshot_records, ver_persons,
          ver_assignments, seqs, running, ret,
          roster, workers, roster_manual, roster_person_override, roster_all,
          issue_person_filter, issue_license_filter, issue_sheet_filter,
          issue_sheet_membership, clock, due_raw, due, asof_csv

\* the two tables write_due_tables writes
duevars == <<due_raw, due>>

\* the tables of the warehouse database and its clock
whvars == <<roster, workers, roster_manual, roster_person_override, roster_all,
            issue_person_filter, issue_license_filter, issue_sheet_filter,
            issue_sheet_membership, clock, duevars>>

\* the tables and sequences of the versioned store, the local variables of
\* the ingestions that are under way on it, and the as-of CSV files kept of it
vervars == <<schema, ver_snapshots, ver_snapshot_records, ver_persons,
             ver_assignments, seqs, running, asof_csv>>

vars == <<schema, ver_snapshots, ver_snapshot_records, ver_persons,
          ver_assignments, seqs, running, asof_csv, ret, whvars>>

tables == <<ver_snapshots, ver_snapshot_records, ver_persons, ver_assignments>>

(***************************************************************************)
(* Bounds                                                                  *)
(***************************************************************************)
\* rows of ver_snapshots plus rows of ver_snapshot_records in the store
MaxStoreRows == 5
\* rows of one uploaded frame
MaxRows == 2
\* snapshot dates are 1..MaxDate when the date order is free
MaxDate == 2
\* days between consecutive snapshots when the dates increase
MaxGap == 2

\* rows of one roster frame written to the warehouse
MaxWhRows == 2
\* inserts into roster_manual
MaxAdds == 1
\* rows of roster_person_override
MaxOverrides == 1
\* inserts into roster_manual when several manual rows share a license_key
MaxSheetAdds == 2

NULL == <<>>

\* the callers that may run an ingestion at the same time
Callers == {1, 2}

\* a caller that is not inside ingest_snapshot / ingest_snapshot_df
Idle == [pc |-> "idle"]

Dates == 1..MaxDate

(***************************************************************************)
(* Text primitives                                                         *)
(***************************************************************************)
\* Unicode code points of the characters the inputs and the key prefixes use.
CodeOf ==
  (" " :> 32) @@ ("-" :> 45) @@ ("0" :> 48) @@ ("1" :> 49) @@ ("2" :> 50) @@
  ("3" :> 51) @@ ("4" :> 52) @@ ("5" :> 53) @@ ("6" :> 54) @@ ("7" :> 55) @@
  ("8" :> 56) @@ ("9" :> 57) @@ (":" :> 58) @@ ("<" :> 60) @@ (">" :> 62) @@
  ("A" :> 65) @@ ("B" :> 66) @@ ("D" :> 68) @@ ("I" :> 73) @@ ("J" :> 74) @@
  ("K" :> 75) @@ ("L" :> 76) @@ ("N" :> 78) @@ ("Q" :> 81) @@ ("T" :> 84) @@
  ("U" :> 85) @@ ("X" :> 88) @@
  ("a" :> 97) @@ ("b" :> 98) @@ ("c" :> 99) @@ ("d" :> 100) @@ ("e" :> 101) @@
  ("f" :> 102) @@ ("i" :> 105) @@ ("j" :> 106) @@ ("k" :> 107) @@ ("l" :> 108) @@
  ("m" :> 109) @@ ("n" :> 110) @@ ("o" :> 111) @@ ("p" :> 112) @@ ("q" :> 113) @@
  ("r" :> 114) @@ ("t" :> 116) @@ ("u" :> 117) @@ ("v" :> 118) @@ ("w" :> 119) @@
  ("x" :> 120) @@ ("|" :> 124) @@
  ("menkyo_1" :> 20813) @@ ("menkyo_2" :> 35377) @@
  ("A_fw" :> 65313) @@ ("a_fw" :> 65345)

Code(c) == CodeOf[c]

IsSpace(c) == c = " "

NFKC(c) == CASE c = "A_fw" -> "A" [] c = "a_fw" -> "a" [] OTHER -> c

\* str.upper() on the letters of the alphabet; the others have no capital
\* that an input or a prefix uses
UpperOf ==
  ("a" :> "A") @@ ("b" :> "B") @@ ("d" :> "D") @@ ("i" :> "I") @@ ("j" :> "J") @@
  ("k" :> "K") @@ ("l" :> "L") @@ ("n" :> "N") @@ ("q" :> "Q") @@ ("t" :> "T") @@
  ("u" :> "U") @@ ("x" :> "X") @@ ("a_fw" :> "A_fw")

\* str.lower()
LowerOf ==
  ("A" :> "a") @@ ("B" :> "b") @@ ("D" :> "d") @@ ("I" :> "i") @@ ("J" :> "j") @@
  ("K" :> "k") @@ ("L" :> "l") @@ ("N" :> "n") @@ ("Q" :> "q") @@ ("T" :> "t") @@
  ("U" :> "u") @@ ("X" :> "x") @@ ("A_fw" :> "a_fw")

UpperChar(c) == IF c \in DOMAIN UpperOf THEN UpperOf[c] ELSE c

upper(s) == [i \in 1..Len(s) |-> UpperChar(s[i])] \o <<>>

IsDigit(c) == c \in {"0", "1", "2", "3", "4", "5", "6", "7", "8", "9"}

\* str.isalpha(), which also covers the kana and CJK ranges the code adds
IsAlpha(c) ==
  \/ c \in DOMAIN UpperOf
  \/ c \in DOMAIN LowerOf
  \/ c \in {"c", "e", "f", "m", "o", "p", "r", "v", "w", "menkyo_1", "menkyo_2"}

LowerChar(c) == IF c \in DOMAIN LowerOf THEN LowerOf[c] ELSE c

lower(s) == [i \in 1..Len(s) |-> LowerChar(s[i])] \o <<>>

RECURSIVE lstrip(_)
lstrip(s) == IF s = <<>> THEN <<>>
             ELSE IF IsSpace(Head(s)) THEN lstrip(Tail(s)) ELSE s

RECURSIVE rstrip(_)
rstrip(s) == IF s = <<>> THEN <<>>
             ELSE IF IsSpace(s[Len(s)]) THEN rstrip(SubSeq(s, 1, Len(s) - 1)) ELSE s

strip(s) == rstrip(lstrip(s))

\* Code-point order of Python str comparison (sorted(), sort_values).
RECURSIVE StrLess(_, _)
StrLess(a, b) ==
  IF b = <<>> THEN FALSE
  ELSE IF a = <<>> THEN TRUE
  ELSE IF Code(Head(a)) < Code(Head(b)) THEN TRUE
  ELSE IF Code(Head(a)) > Code(Head(b)) THEN FALSE
  ELSE StrLess(Tail(a), Tail(b))

RECURSIVE sorted(_)
sorted(S) ==
  IF S = {} THEN <<>>
  ELSE LET m == CHOOSE x \in S : \A y \in S : ~StrLess(y, x)
       IN  <<m>> \o sorted(S \ {m})

\* normalize.name_key: NFKC fold, then delete all whitespace.
name_key(s) ==
  SelectSeq([i \in 1..Len(s) |-> NFKC(s[i])], LAMBDA c : ~IsSpace(c))

(***************************************************************************)
(* Record normalizer                                                       *)
(***************************************************************************)
\* pd.to_datetime(errors="coerce").dt.date on one cell: day numbers <= 0
\* stand for text that does not parse as a date.
CoerceDate(v) == IF v = NULL \/ v[1] <= 0 THEN NULL ELSE v

\* lambda x: None if blank else str(x).strip()
CoerceText(v) == strip(v)

NormalizeRow(r) ==
  [name             |-> CoerceText(r.name),
   license_no       |-> CoerceText(r.license_no),
   qualification    |-> CoerceText(r.qualification),
   category         |-> CoerceText(r.category),
   first_issue_date |-> CoerceDate(r.first_issue_date),
   issue_date       |-> CoerceDate(r.issue_date),
   expiry_date      |-> CoerceDate(r.expiry_date)]

IsNoiseRow(r) == r.name = NULL /\ r.license_no = NULL /\ r.qualification = NULL

_normalize_snapshot_df(df) ==
  SelectSeq([i \in 1..Len(df) |-> NormalizeRow(df[i])], LAMBDA r : ~IsNoiseRow(r))

_record_key(row) ==
  name_key(row.name) \o <<"|">> \o lower(strip(row.license_no))
                     \o <<"|">> \o lower(strip(row.qualification))

\* Stable insertion of x into a sequence already sorted by rec_key.
RECURSIVE InsertByKey(_, _)
InsertByKey(srt, x) ==
  IF srt = <<>> THEN <<x>>
  ELSE IF StrLess(x[1], Head(srt)[1]) THEN <<x>> \o srt
  ELSE <<Head(srt)>> \o InsertByKey(Tail(srt), x)

RECURSIVE SortByKey(_)
SortByKey(s) ==
  IF s = <<>> THEN <<>>
  ELSE InsertByKey(SortByKey(SubSeq(s, 1, Len(s) - 1)), s[Len(s)])

\* sha256 of the CSV of the rows, stably sorted by rec_key; the digest is
\* modelled by the sorted row list itself.
_content_hash(df) == SortByKey([i \in 1..Len(df) |-> <<_record_key(df[i]), df[i]>>])

(***************************************************************************)
(* Snapshot store and interval manager                                     *)
(***************************************************************************)
\* CREATE TABLE IF NOT EXISTS ...: the four tables exist afterwards, with
\* whatever rows they already had.
_ensure_schema(exists) == TRUE

\* Mutant: the lookup compares the name as typed, not its name_key.
_get_or_create_person_by_name(con, name) ==
  LET nk  == name_key(name)
      hit == {i \in DOMAIN con.persons : con.persons[i].name = name}
  IN  IF hit /= {}
      THEN [persons |-> con.persons, pseq |-> con.pseq,
            pid |-> con.persons[CHOOSE i \in hit : \A j \in hit : i <= j].person_id]
      ELSE [persons |-> Append(con.persons,
                               [person_id |-> con.pseq + 1, name |-> name, name_key |-> nk]),
            pseq |-> con.pseq + 1,
            pid |-> con.pseq + 1]

\* SELECT person_id ... WHERE name_key = ?; INSERT when there is no row.
\* con is [persons, pseq]; the result adds the person_id found or created.
_get_or_create_person(con, name) ==
  LET nk  == name_key(name)
      hit == {i \in DOMAIN con.persons : con.persons[i].name_key = nk}
  IN  IF hit /= {}
      THEN [persons |-> con.persons, pseq |-> con.pseq,
            pid |-> con.persons[CHOOSE i \in hit : \A j \in hit : i <= j].person_id]
      ELSE [persons |-> Append(con.persons,
                               [person_id |-> con.pseq + 1, name |-> name, name_key |-> nk]),
            pseq |-> con.pseq + 1,
            pid |-> con.pseq + 1]

\* Mutant: an upload whose content_hash is already stored adds no snapshot row.
_insert_snapshot_meta_dedup(snapshots, sseq, snapshot_date, df_norm) ==
  LET ch   == _content_hash(df_norm)
      same == {i \in DOMAIN snapshots : snapshots[i].content_hash = ch}
      sid  == sseq + 1
  IN  IF same /= {}
      THEN LET old == snapshots[CHOOSE i \in same : TRUE]
           IN  [snapshots |-> snapshots, sseq |-> sseq,
                meta |-> [snapshot_id |-> old.snapshot_id, snapshot_date |-> old.snapshot_date,
                          row_count |-> old.row_count, content_hash |-> ch]]
      ELSE [snapshots |-> Append(snapshots,
                                 [snapshot_id |-> sid, snapshot_date |-> snapshot_date,
                                  content_hash |-> ch, row_count |-> Len(df_norm)]),
            sseq |-> sid,
            meta |-> [snapshot_id |-> sid, snapshot_date |-> snapshot_date,
                      row_count |-> Len(df_norm), content_hash |-> ch]]

\* nextval('ver_snapshots_seq') and the INSERT INTO ver_snapshots.
_insert_snapshot_meta(snapshots, sseq, snapshot_date, df_norm) ==
  LET ch  == _content_hash(df_norm)
      sid == sseq + 1
  IN  [snapshots |-> Append(snapshots,
                            [snapshot_id |-> sid, snapshot_date |-> snapshot_date,
                             content_hash |-> ch, row_count |-> Len(df_norm)]),
       sseq |-> sid,
       meta |-> [snapshot_id |-> sid, snapshot_date |-> snapshot_date,
                 row_count |-> Len(df_norm), content_hash |-> ch]]

_write_snapshot_records(records, sid, df) ==
  records \o [i \in 1..Len(df) |->
                [snapshot_id |-> sid, rec_key |-> _record_key(df[i]),
                 name |-> df[i].name, license_no |-> df[i].license_no,
                 qualification |-> df[i].qualification, category |-> df[i].category,
                 first_issue_date |-> df[i].first_issue_date,
                 issue_date |-> df[i].issue_date, expiry_date |-> df[i].expiry_date]]

\* Mutant: the SELECT leaves out "valid_to IS NULL".
_open_assignments_for_closed_too(asg, rec_keys) ==
  LET rows == {i \in DOMAIN asg : asg[i].rec_key \in rec_keys}
      ks   == {asg[i].rec_key : i \in rows}
  IN  IF rec_keys = {} THEN {<<>>}
      ELSE {f \in [ks -> {asg[i].assign_id : i \in rows}] :
              \A k \in ks : \E i \in rows : asg[i].rec_key = k /\ asg[i].assign_id = f[k]}

\* The dicts {rec_key -> assign_id} the SELECT ... WHERE valid_to IS NULL AND
\* rec_key IN (...) can yield: the query has no ORDER BY, so when several open
\* rows share a rec_key any of them may be the one the dict keeps.
_open_assignments_for(asg, rec_keys) ==
  LET rows == {i \in DOMAIN asg : asg[i].valid_to = NULL /\ asg[i].rec_key \in rec_keys}
      ks   == {asg[i].rec_key : i \in rows}
  IN  IF rec_keys = {} THEN {<<>>}
      ELSE {f \in [ks -> {asg[i].assign_id : i \in rows}] :
              \A k \in ks : \E i \in rows : asg[i].rec_key = k /\ asg[i].assign_id = f[k]}

\* Mutant: the close pass writes the snapshot date itself, not the day before.
_close_missing_assignments_same_day(asg, snapshot_date, current_keys) ==
  LET open_rows == {i \in DOMAIN asg : asg[i].valid_to = NULL}
      to_close  == {asg[i].assign_id : i \in {j \in open_rows : asg[j].rec_key \notin current_keys}}
      dt        == snapshot_date
  IN  [i \in DOMAIN asg |->
         IF asg[i].assign_id \in to_close THEN [asg[i] EXCEPT !.valid_to = <<dt>>] ELSE asg[i]]

\* Mutant: the close pass selects every row, not only those with valid_to NULL.
_close_missing_assignments_all_rows(asg, snapshot_date, current_keys) ==
  LET open_rows == DOMAIN asg
      to_close  == {asg[i].assign_id : i \in {j \in open_rows : asg[j].rec_key \notin current_keys}}
      dt        == snapshot_date - 1
  IN  [i \in DOMAIN asg |->
         IF asg[i].assign_id \in to_close THEN [asg[i] EXCEPT !.valid_to = <<dt>>] ELSE asg[i]]

\* Mutant: the close pass leaves rows opened after the day before the
\* snapshot date alone.
_close_missing_assignments_in_order(asg, snapshot_date, current_keys) ==
  LET open_rows == {i \in DOMAIN asg : asg[i].valid_to = NULL}
      to_close  == {asg[i].assign_id : i \in {j \in open_rows :
                       /\ asg[j].rec_key \notin current_keys
                       /\ asg[j].valid_from <= snapshot_date - 1}}
      dt        == snapshot_date - 1
  IN  [i \in DOMAIN asg |->
         IF asg[i].assign_id \in to_close THEN [asg[i] EXCEPT !.valid_to = <<dt>>] ELSE asg[i]]

\* Mutant: the close pass closes every open row, whatever its rec_key.
_close_missing_assignments_every_open(asg, snapshot_date, current_keys) ==
  LET dt == snapshot_date - 1
  IN  [i \in DOMAIN asg |->
         IF asg[i].valid_to = NULL THEN [asg[i] EXCEPT !.valid_to = <<dt>>] ELSE asg[i]]

\* Mutant: valid_to is set two days before the snapshot date.
_close_missing_assignments_two_days(asg, snapshot_date, current_keys) ==
  LET open_rows == {i \in DOMAIN asg : asg[i].valid_to = NULL}
      to_close  == {asg[i].assign_id : i \in {j \in open_rows : asg[j].rec_key \notin current_keys}}
      dt        == snapshot_date - 2
  IN  [i \in DOMAIN asg |->
         IF asg[i].assign_id \in to_close THEN [asg[i] EXCEPT !.valid_to = <<dt>>] ELSE asg[i]]

\* UPDATE ver_assignments SET valid_to = day before snapshot_date
\*  WHERE assign_id IN (open rows whose rec_key is not in current_keys)
_close_missing_assignments(asg, snapshot_date, current_keys) ==
  LET open_rows == {i \in DOMAIN asg : asg[i].valid_to = NULL}
      to_close  == {asg[i].assign_id : i \in {j \in open_rows : asg[j].rec_key \notin current_keys}}
      dt        == snapshot_date - 1
  IN  [i \in DOMAIN asg |->
         IF asg[i].assign_id \in to_close THEN [asg[i] EXCEPT !.valid_to = <<dt>>] ELSE asg[i]]

\* Mutant: the UPDATE leaves expiry_date as it was stored.
UpdatePayload_keeps_expiry(asg, aid, r) ==
  [i \in DOMAIN asg |->
     IF asg[i].assign_id = aid
     THEN [asg[i] EXCEPT !.license_no = r.license_no, !.qualification = r.qualification,
                         !.category = r.category, !.first_issue_date = r.first_issue_date,
                         !.issue_date = r.issue_date]
     ELSE asg[i]]

\* UPDATE ver_assignments SET <payload> WHERE assign_id = aid
UpdatePayload(asg, aid, r) ==
  [i \in DOMAIN asg |->
     IF asg[i].assign_id = aid
     THEN [asg[i] EXCEPT !.license_no = r.license_no, !.qualification = r.qualification,
                         !.category = r.category, !.first_issue_date = r.first_issue_date,
                         !.issue_date = r.issue_date, !.expiry_date = r.expiry_date]
     ELSE asg[i]]

\* for nm in sorted(set(names)): if nm.strip(): _get_or_create_person(con, nm)
RECURSIVE UpsertPersons(_, _)
UpsertPersons(con, names) ==
  IF names = <<>> THEN con
  ELSE LET nm == Head(names)
           c2 == IF strip(nm) /= <<>>
                 THEN LET g == _get_or_create_person(con, nm)
                      IN  [persons |-> g.persons, pseq |-> g.pseq]
                 ELSE con
       IN  UpsertPersons(c2, Tail(names))

\* Mutant: a record without a name opens an assignment too, for person 0.
RowStep_opens_nameless(st, r, open_map, snapshot_date) ==
  LET rk == _record_key(r)
  IN  IF rk \in DOMAIN open_map
      THEN [st EXCEPT !.asg = UpdatePayload(@, open_map[rk], r)]
      ELSE LET g == IF strip(r.name) = <<>>
                    THEN [persons |-> st.persons, pseq |-> st.pseq, pid |-> 0]
                    ELSE _get_or_create_person([persons |-> st.persons, pseq |-> st.pseq], r.name)
           IN  [asg |-> st.asg, aseq |-> st.aseq + 1,
                persons |-> g.persons, pseq |-> g.pseq,
                new_rows |-> Append(st.new_rows,
                   [assign_id |-> st.aseq + 1, person_id |-> g.pid, rec_key |-> rk,
                    license_no |-> r.license_no, qualification |-> r.qualification,
                    category |-> r.category, first_issue_date |-> r.first_issue_date,
                    issue_date |-> r.issue_date, expiry_date |-> r.expiry_date,
                    valid_from |-> snapshot_date, valid_to |-> NULL])]

\* Mutant: the loop looks the rec_key up among the open rows of the table as
\* well, not only in the open_map read before the loop.
RowStep_rereads_open(st, r, open_map, snapshot_date) ==
  LET rk == _record_key(r)
  IN  IF rk \in DOMAIN open_map
      THEN [st EXCEPT !.asg = UpdatePayload(@, open_map[rk], r)]
      ELSE IF strip(r.name) = <<>>
              \/ \E i \in DOMAIN st.asg : st.asg[i].rec_key = rk /\ st.asg[i].valid_to = NULL
      THEN st
      ELSE LET g == _get_or_create_person([persons |-> st.persons, pseq |-> st.pseq], r.name)
           IN  [asg |-> st.asg, aseq |-> st.aseq + 1,
                persons |-> g.persons, pseq |-> g.pseq,
                new_rows |-> Append(st.new_rows,
                   [assign_id |-> st.aseq + 1, person_id |-> g.pid, rec_key |-> rk,
                    license_no |-> r.license_no, qualification |-> r.qualification,
                    category |-> r.category, first_issue_date |-> r.first_issue_date,
                    issue_date |-> r.issue_date, expiry_date |-> r.expiry_date,
                    valid_from |-> snapshot_date, valid_to |-> NULL])]

\* One iteration of "for _, r in df.iterrows()": st is
\* [asg, aseq, persons, pseq, new_rows].
RowStep(st, r, open_map, snapshot_date) ==
  LET rk == _record_key(r)
  IN  IF rk \in DOMAIN open_map
      THEN [st EXCEPT !.asg = UpdatePayload(@, open_map[rk], r)]
      ELSE IF strip(r.name) = <<>>
      THEN st
      ELSE LET g == _get_or_create_person([persons |-> st.persons, pseq |-> st.pseq], r.name)
           IN  [asg |-> st.asg, aseq |-> st.aseq + 1,
                persons |-> g.persons, pseq |-> g.pseq,
                new_rows |-> Append(st.new_rows,
                   [assign_id |-> st.aseq + 1, person_id |-> g.pid, rec_key |-> rk,
                    license_no |-> r.license_no, qualification |-> r.qualification,
                    category |-> r.category, first_issue_date |-> r.first_issue_date,
                    issue_date |-> r.issue_date, expiry_date |-> r.expiry_date,
                    valid_from |-> snapshot_date, valid_to |-> NULL])]

RECURSIVE RowLoop(_, _, _, _)
RowLoop(st, df, open_map, snapshot_date) ==
  IF df = <<>> THEN st
  ELSE RowLoop(RowStep(st, Head(df), open_map, snapshot_date), Tail(df), open_map, snapshot_date)

CurrentKeys(df) == {_record_key(df[i]) : i \in 1..Len(df)}

\* Body shared by ingest_snapshot and ingest_snapshot_df once the normalized
\* frame df and the date ts are known: what it writes and returns.
IngestTables(df, ts, open_map) ==
  LET m    == _insert_snapshot_meta(ver_snapshots, seqs.snap, ts, df)
      recs == _write_snapshot_records(ver_snapshot_records, m.meta.snapshot_id, df)
      ps   == UpsertPersons([persons |-> ver_persons, pseq |-> seqs.person],
                            sorted({df[i].name : i \in 1..Len(df)}))
      st   == RowLoop([asg |-> ver_assignments, aseq |-> seqs.assign,
                       persons |-> ps.persons, pseq |-> ps.pseq, new_rows |-> <<>>],
                      df, open_map, ts)
      ins  == st.asg \o st.new_rows
  IN  /\ schema' = _ensure_schema(schema)
      /\ ver_snapshots' = m.snapshots
      /\ ver_snapshot_records' = recs
      /\ ver_persons' = st.persons
      /\ ver_assignments' = _close_missing_assignments(ins, ts, CurrentKeys(df))
      /\ seqs' = [snap |-> m.sseq, person |-> st.pseq, assign |-> st.aseq]
      /\ ret' = [op |-> "ingest", status |-> "ok", meta |-> m.meta]

\* an ingestion called by itself
IngestBody(df, ts, open_map) ==
  /\ IngestTables(df, ts, open_map)
  /\ UNCHANGED <<running, asof_csv, whvars>>

(***************************************************************************)
(* Inputs                                                                  *)
(***************************************************************************)
RawRecords ==
  { [name |-> <<"A", "B">>, license_no |-> <<"X", "1">>, qualification |-> <<"Q">>,
     category |-> <<"J">>, first_issue_date |-> NULL, issue_date |-> <<1>>,
     expiry_date |-> <<5>>],
    [name |-> <<" ", "A_fw", " ", "B">>, license_no |-> <<"x", "1", " ">>,
     qualification |-> <<"q">>, category |-> <<"K">>, first_issue_date |-> NULL,
     issue_date |-> <<1>>, expiry_date |-> <<6>>],
    [name |-> <<"B">>, license_no |-> <<"X", "1">>, qualification |-> <<"Q">>,
     category |-> <<"J">>, first_issue_date |-> NULL, issue_date |-> <<2>>,
     expiry_date |-> <<5>>],
    [name |-> <<" ">>, license_no |-> <<"X", "1">>, qualification |-> <<"Q">>,
     category |-> NULL, first_issue_date |-> NULL, issue_date |-> NULL,
     expiry_date |-> <<0>>] }

\* the uploaded frames of n rows
Frames(n) == [1..n -> RawRecords]

\* the frame sizes the store bound still admits
FrameSizes ==
  {n \in 0..MaxRows :
     Len(ver_snapshots) + 1 + Len(ver_snapshot_records) + n <= MaxStoreRows}

LastDate ==
  IF ver_snapshots = <<>> THEN 0
  ELSE ver_snapshots[Len(ver_snapshots)].snapshot_date

\* the dates later than every ingested snapshot_date, at most MaxGap days on
IncreasingDates ==
  {d \in (LastDate + 1)..(LastDate + MaxGap) :
     \A i \in DOMAIN ver_snapshots : ver_snapshots[i].snapshot_date < d}

(***************************************************************************)
(* Operations                                                              *)
(***************************************************************************)
\* ingest_snapshot: read_snapshot_xls hands over an already normalized frame.
ingest_snapshot(raw, snapshot_date) ==
  LET df == _normalize_snapshot_df(raw)
  IN  \E open_map \in _open_assignments_for(ver_assignments, CurrentKeys(df)) :
            IngestBody(df, snapshot_date, open_map)

\* ingest_snapshot_df: normalizes the uploaded frame itself.
ingest_snapshot_df(raw, snapshot_date) ==
  LET df_norm == _normalize_snapshot_df(raw)
  IN  \E open_map \in _open_assignments_for(ver_assignments, CurrentKeys(df_norm)) :
            IngestBody(df_norm, snapshot_date, open_map)

\* Mutant: the upper bound of the validity test is exclusive.
AsOfJoin_exclusive_to(asg, persons, dt) ==
  LET pairs == {<<i, j>> \in (DOMAIN asg) \X (DOMAIN persons) :
                  /\ persons[j].person_id = asg[i].person_id
                  /\ asg[i].valid_from <= dt
                  /\ (asg[i].valid_to = NULL \/ asg[i].valid_to[1] > dt)}
  IN  {[assign_id |-> asg[p[1]].assign_id, rec_key |-> asg[p[1]].rec_key,
        name |-> persons[p[2]].name, license_no |-> asg[p[1]].license_no,
        qualification |-> asg[p[1]].qualification, category |-> asg[p[1]].category,
        first_issue_date |-> asg[p[1]].first_issue_date,
        issue_date |-> asg[p[1]].issue_date, expiry_date |-> asg[p[1]].expiry_date,
        valid_from |-> asg[p[1]].valid_from, valid_to |-> asg[p[1]].valid_to,
        pidx |-> p[2]] : p \in pairs}

\* SELECT ... FROM ver_assignments a JOIN ver_persons p ON p.person_id = a.person_id
\*  WHERE a.valid_from <= ? AND (a.valid_to IS NULL OR a.valid_to >= ?)
\* One result row per joined pair; assign_id, rec_key and pidx tag a row with
\* the rows it was joined from, so that equal result rows stay apart.
AsOfJoin(asg, persons, dt) ==
  LET pairs == {<<i, j>> \in (DOMAIN asg) \X (DOMAIN persons) :
                  /\ persons[j].person_id = asg[i].person_id
                  /\ asg[i].valid_from <= dt
                  /\ (asg[i].valid_to = NULL \/ asg[i].valid_to[1] >= dt)}
  IN  {[assign_id |-> asg[p[1]].assign_id, rec_key |-> asg[p[1]].rec_key,
        name |-> persons[p[2]].name, license_no |-> asg[p[1]].license_no,
        qualification |-> asg[p[1]].qualification, category |-> asg[p[1]].category,
        first_issue_date |-> asg[p[1]].first_issue_date,
        issue_date |-> asg[p[1]].issue_date, expiry_date |-> asg[p[1]].expiry_date,
        valid_from |-> asg[p[1]].valid_from, valid_to |-> asg[p[1]].valid_to,
        pidx |-> p[2]] : p \in pairs}

\* asof_dataframe: connects and runs the SELECT; it never creates the tables,
\* so on a database without them the query raises a catalog error.
asof_dataframe(date) ==
  /\ ret' = IF schema
            THEN [op |-> "asof", status |-> "ok", date |-> date,
                  rows |-> AsOfJoin(ver_assignments, ver_persons, date)]
            ELSE [op |-> "asof", status |-> "error", date |-> date, rows |-> {}]
  /\ UNCHANGED <<vervars, whvars>>

\* the versioned store of a new database file
InitStore ==
  /\ schema = FALSE
  /\ ver_snapshots = <<>>
  /\ ver_snapshot_records = <<>>
  /\ ver_persons = <<>>
  /\ ver_assignments = <<>>
  /\ seqs = [snap |-> 0, person |-> 0, assign |-> 0]
  /\ running = [p \in Callers |-> Idle]
  /\ asof_csv = <<>>
  /\ ret = [op |-> "none"]

\* the warehouse tables of a new database file, next to the workers table wk
InitWarehouse(wk) ==
  /\ roster = <<>>
  /\ workers = wk
  /\ roster_manual = <<>>
  /\ roster_person_override = {}
  /\ roster_all = <<>>
  /\ issue_person_filter = {}
  /\ issue_license_filter = {}
  /\ issue_sheet_filter = {}
  /\ issue_sheet_membership = {}
  /\ clock = 0
  /\ due_raw = <<>>
  /\ due = <<>>

Init == InitStore /\ InitWarehouse(<<>>)

IngestXls == \E n \in FrameSizes : \E raw \in Frames(n), d \in Dates : ingest_snapshot(raw, d)

IngestDf == \E n \in FrameSizes : \E raw \in Frames(n), d \in Dates : ingest_snapshot_df(raw, d)

IngestXlsInc == \E n \in FrameSizes : \E raw \in Frames(n), d \in IncreasingDates : ingest_snapshot(raw, d)

IngestDfInc == \E n \in FrameSizes : \E raw \in Frames(n), d \in IncreasingDates : ingest_snapshot_df(raw, d)

AsOf == \E d \in 0..MaxDate : asof_dataframe(d)

\* sequential ingestion, snapshot dates in any order
Next == IngestXls \/ IngestDf

Spec == Init /\ [][Next]_vars

\* sequential ingestion with strictly increasing snapshot dates
NextInc == IngestXlsInc \/ IngestDfInc

SpecInc == Init /\ [][NextInc]_vars

\* ingestion in any date order, interleaved with as-of queries
NextQuery == IngestXls \/ IngestDf \/ AsOf

SpecQuery == Init /\ [][NextQuery]_vars

(***************************************************************************)
(* Two callers ingesting at the same time.  Neither function takes a lock  *)
(* or opens a transaction, so every statement commits on its own and the   *)
(* statements of two calls interleave.  A call is cut where it reads the   *)
(* tables again: before the SELECT of _open_assignments_for, before the    *)
(* row loop with its INSERT, and before _close_missing_assignments.        *)
(* running[p] holds the local variables df, ts, meta, open_map of caller p *)
(* and the place it has reached.                                           *)
(***************************************************************************)
\* _ensure_schema, _insert_snapshot_meta, _write_snapshot_records and the
\* upsert of the persons named in the frame
BeginIngest(p, raw, snapshot_date) ==
  LET df == _normalize_snapshot_df(raw)
      m  == _insert_snapshot_meta(ver_snapshots, seqs.snap, snapshot_date, df)
      ps == UpsertPersons([persons |-> ver_persons, pseq |-> seqs.person],
                          sorted({df[i].name : i \in 1..Len(df)}))
  IN  /\ running[p].pc = "idle"
      /\ schema' = _ensure_schema(schema)
      /\ ver_snapshots' = m.snapshots
      /\ ver_snapshot_records' =
            _write_snapshot_records(ver_snapshot_records, m.meta.snapshot_id, df)
      /\ ver_persons' = ps.persons
      /\ seqs' = [seqs EXCEPT !.snap = m.sseq, !.person = ps.pseq]
      /\ running' = [running EXCEPT ![p] =
            [pc |-> "open_map", df |-> df, ts |-> snapshot_date, meta |-> m.meta]]
      /\ UNCHANGED <<ver_assignments, ret, asof_csv, whvars>>

\* open_map = _open_assignments_for(con, current_keys)
ReadOpenMap(p) ==
  /\ running[p].pc = "open_map"
  /\ \E open_map \in _open_assignments_for(ver_assignments, CurrentKeys(running[p].df)) :
        running' = [running EXCEPT ![p] =
          [pc |-> "rows", df |-> running[p].df, ts |-> running[p].ts,
           meta |-> running[p].meta, open_map |-> open_map]]
  /\ UNCHANGED <<schema, ver_snapshots, ver_snapshot_records, ver_persons,
                 ver_assignments, seqs, ret, asof_csv, whvars>>

\* the row loop against the open_map read before, and the INSERT of new_rows
InsertNewRows(p) ==
  /\ running[p].pc = "rows"
  /\ LET st == RowLoop([asg |-> ver_assignments, aseq |-> seqs.assign,
                        persons |-> ver_persons, pseq |-> seqs.person,
                        new_rows |-> <<>>],
                       running[p].df, running[p].open_map, running[p].ts)
     IN  /\ ver_assignments' = st.asg \o st.new_rows
         /\ ver_persons' = st.persons
         /\ seqs' = [seqs EXCEPT !.person = st.pseq, !.assign = st.aseq]
  /\ running' = [running EXCEPT ![p] =
        [pc |-> "close", df |-> running[p].df, ts |-> running[p].ts,
         meta |-> running[p].meta]]
  /\ UNCHANGED <<schema, ver_snapshots, ver_snapshot_records, ret, asof_csv, whvars>>

\* _close_missing_assignments, return meta
CloseMissing(p) ==
  /\ running[p].pc = "close"
  /\ ver_assignments' = _close_missing_assignments(ver_assignments, running[p].ts,
                                                   CurrentKeys(running[p].df))
  /\ running' = [running EXCEPT ![p] = Idle]
  /\ ret' = [op |-> "ingest", status |-> "ok", meta |-> running[p].meta]
  /\ UNCHANGED <<schema, ver_snapshots, ver_snapshot_records, ver_persons, seqs, asof_csv, whvars>>

CallIngest ==
  \E p \in Callers : \E n \in FrameSizes : \E raw \in Frames(n), d \in Dates :
     BeginIngest(p, raw, d)

NextRace ==
  \/ CallIngest
  \/ \E p \in Callers : ReadOpenMap(p)
  \/ \E p \in Callers : InsertNewRows(p)
  \/ \E p \in Callers : CloseMissing(p)

SpecRace == Init /\ [][NextRace]_vars

(***************************************************************************)
(* Roster materialization (warehouse.py)                                   *)
(*                                                                         *)
(* The frames carry the columns name, license_no, employee_id,             *)
(* qualification, category and the four dates; the other text columns of   *)
(* the fallback list are handled by the code exactly as category is.  Date *)
(* columns are DATE columns, so a missing date reads back as NaT.  A       *)
(* timestamp (created, now) is a tick of the database clock on the same    *)
(* axis as the day numbers.                                                *)
(***************************************************************************)
DEFAULT_SHEET == <<"d", "e", "f", "a", "u", "l", "t">>

\* the texts _clean_token treats as missing, compared in lower case
NullTokens ==
  { <<"n", "a", "n">>, <<"n", "o", "n", "e">>, <<"n", "u", "l", "l">>,
    <<"n", "a">>, <<"<", "n", "a", ">">> }

\* _clean_token of a text that is already stripped
CleanStripped(text) ==
  IF text = <<>> THEN <<>>
  ELSE IF lower(text) \in NullTokens THEN <<>>
  ELSE text

_clean_token(value) == CleanStripped(strip(value))

\* normalize.license_key: NFKC fold, upper case, then delete whitespace and
\* hyphens.
license_key(s) ==
  SelectSeq(upper([i \in 1..Len(s) |-> NFKC(s[i])]),
            LAMBDA c : ~IsSpace(c) /\ c # "-")

AllDigits(s) == s # <<>> /\ \A i \in 1..Len(s) : IsDigit(s[i])

RECURSIVE StripZeros(_)
StripZeros(s) ==
  IF Len(s) > 1 /\ Head(s) = "0" THEN StripZeros(Tail(s)) ELSE s

\* str(int(float(text))) when float(text) is a finite integer, else text.
\* Over this alphabet float() parses the digit strings, signed or not (the
\* inputs hold no decimal point and no exponent form).
IntText(text) ==
  IF AllDigits(text) THEN StripZeros(text)
  ELSE IF Len(text) > 1 /\ Head(text) = "-" /\ AllDigits(Tail(text))
       THEN LET d == StripZeros(Tail(text))
            IN  IF d = <<"0">> THEN d ELSE <<"-">> \o d
       ELSE text

\* _clean_name_value of a token from which the whitespace is deleted
CleanCollapsed(collapsed) ==
  IF collapsed = <<>> THEN <<>>
  ELSE IF \A i \in DOMAIN collapsed : ~IsAlpha(collapsed[i]) THEN <<>>
  ELSE IF 10 * Cardinality({i \in DOMAIN collapsed : IsDigit(collapsed[i])})
            > 3 * Len(collapsed)
       THEN <<>>
  ELSE IF \A i \in DOMAIN collapsed : IsDigit(collapsed[i]) \/ collapsed[i] = "-"
       THEN <<>>
  ELSE collapsed

_clean_name_value(value) ==
  CleanCollapsed(SelectSeq(_clean_token(value), LAMBDA c : ~IsSpace(c)))

\* the integer form of a cleaned employee id
EmployeeIdOf(text) == IF text = <<>> THEN <<>> ELSE IntText(text)

_normalize_employee_id(value) == EmployeeIdOf(_clean_token(value))

\* the normalized form of a cleaned license number
LicenseNoOf(text) == IF text = <<>> THEN <<>> ELSE license_key(IntText(text))

_normalize_license_no(value) == LicenseNoOf(_clean_token(value))

EmptyDict == [k \in {} |-> <<>>]

\* The dict a loop "if k and v and k not in d: d[k] = v" builds from the
\* pairs <<k, v>>, starting from d.
RECURSIVE FirstValues(_, _)
FirstValues(pairs, d) ==
  IF pairs = <<>> THEN d
  ELSE LET k == Head(pairs)[1]
           v == Head(pairs)[2]
       IN  FirstValues(Tail(pairs),
                       IF k # <<>> /\ v # <<>> /\ k \notin DOMAIN d
                       THEN d @@ (k :> v) ELSE d)

\* SELECT employee_id, name FROM workers WHERE name IS NOT NULL; an absent
\* workers table gives the empty dict, as an empty one does.
_load_worker_name_map(wk) ==
  FirstValues([i \in DOMAIN wk |->
                 <<_normalize_employee_id(wk[i].employee_id),
                   _clean_name_value(wk[i].name)>>],
              EmptyDict)

DigitChars == <<"0", "1", "2", "3", "4", "5", "6", "7", "8", "9">>

\* str(n) of a row index or str(value) of a date cell
IndexText(n) == <<DigitChars[n + 1]>>

\* a blank name is looked up in the workers table by employee id
LookupName(name, e, worker_lookup) ==
  IF name = <<>> /\ e \in DOMAIN worker_lookup THEN worker_lookup[e] ELSE name

\* the placeholder name of a row without any name
Placeholder(lic, e, idx) ==
  IF lic # <<>> THEN <<"menkyo_1", "menkyo_2", ":">> \o lic
  ELSE IF e # <<>> THEN <<"I", "D", ":">> \o e
  ELSE <<"u", "n", "k", "n", "o", "w", "n", ":">> \o IndexText(idx)

\* the name series after the lookup of blank names in the workers table
LookupNames(df, emp, worker_lookup) ==
  [i \in DOMAIN df |->
     LookupName(_clean_name_value(df[i].name), emp[i], worker_lookup)] \o <<>>

\* final_names: the name kept, else the name of another row of the same
\* license, else of the same employee, else a placeholder
FinalName(row, idx, name, lic, e, license_name_map, worker_lookup) ==
  IF name # <<>> THEN name
  ELSE IF lic \in DOMAIN license_name_map THEN license_name_map[lic]
  ELSE IF e \in DOMAIN worker_lookup THEN worker_lookup[e]
  ELSE Placeholder(_clean_token(row.license_no), e, idx)

FinalFrame(df, emp, names, license_norm, license_name_map, worker_lookup) ==
  [i \in DOMAIN df |->
     [df[i] EXCEPT
        !.employee_id = emp[i],
        !.name = FinalName(df[i], i - 1, names[i], license_norm[i], emp[i],
                           license_name_map, worker_lookup)]] \o <<>>

\* the part of _enrich_identity_fields behind the name series: the two name
\* maps and the final names
EnrichWithNames(df, emp, names, license_norm, worker_lookup0) ==
  FinalFrame(df, emp, names, license_norm,
             FirstValues([i \in DOMAIN df |-> <<license_norm[i], names[i]>>],
                         EmptyDict),
             FirstValues([i \in DOMAIN df |-> <<emp[i], names[i]>>],
                         worker_lookup0))

\* the part of _enrich_identity_fields behind emp_series and the load of
\* the workers table
EnrichWithIds(df, emp, worker_lookup0) ==
  EnrichWithNames(df, emp, LookupNames(df, emp, worker_lookup0),
                  [i \in DOMAIN df |-> _normalize_license_no(df[i].license_no)] \o <<>>,
                  worker_lookup0)

\* _enrich_identity_fields: employee ids normalized, empty names filled from
\* the workers table, from another row of the same license or employee, or
\* with a placeholder.  "name" is the only name column of the frames (the
\* detector of further name columns needs twenty distinct values).
_enrich_identity_fields(df, wk) ==
  IF df = <<>> THEN df
  ELSE EnrichWithIds(df,
                     [i \in DOMAIN df |-> _normalize_employee_id(df[i].employee_id)] \o <<>>,
                     _load_worker_name_map(wk))

\* str() of a date cell of the combined frame
DateText(d) == IF d = NULL THEN <<"N", "a", "T">> ELSE IndexText(d[1])

\* Mutant: the name is looked at before the employee id.
_person_key_name_first(row) ==
  LET emp == _clean_token(row.employee_id)
      name == _clean_token(row.name)
      lic == _clean_token(row.license_no)
      qual == _clean_token(row.qualification)
      expiry == _clean_token(DateText(row.expiry_date))
  IN  IF name # <<>> THEN <<"n", "a", "m", "e", ":">> \o name_key(name)
      ELSE IF emp # <<>> THEN <<"e", "m", "p", ":">> \o emp
      ELSE IF lic # <<>> THEN <<"l", "i", "c", ":">> \o license_key(lic)
      ELSE <<"a", "n", "o", "n", ":">> \o qual \o <<"|">> \o expiry

\* sha1 of "qual|expiry" is the text itself (digests are injective here)
_person_key(row) ==
  LET emp == _clean_token(row.employee_id)
      name == _clean_token(row.name)
      lic == _clean_token(row.license_no)
      qual == _clean_token(row.qualification)
      expiry == _clean_token(DateText(row.expiry_date))
  IN  IF emp # <<>> THEN <<"e", "m", "p", ":">> \o emp
      ELSE IF name # <<>> THEN <<"n", "a", "m", "e", ":">> \o name_key(name)
      ELSE IF lic # <<>> THEN <<"l", "i", "c", ":">> \o license_key(lic)
      ELSE <<"a", "n", "o", "n", ":">> \o qual \o <<"|">> \o expiry

_license_key(row, person_key) ==
  LET lic == _clean_token(row.license_no)
      qual == _clean_token(row.qualification)
      expiry == _clean_token(DateText(row.expiry_date))
      issue == _clean_token(DateText(row.issue_date))
  IN  IF lic # <<>> THEN <<"l", "i", "c", ":">> \o license_key(lic)
      ELSE <<"d", "e", "r", "i", "v", "e", "d", ":">> \o person_key \o <<"|">> \o qual
             \o <<"|">> \o expiry \o <<"|">> \o issue

_normalize_sheet(value) ==
  LET text == _clean_token(value)
  IN  IF text = <<>> THEN DEFAULT_SHEET ELSE text

\* a row with its two keys
KeyedRow(row, pk) ==
  row @@ [person_key |-> pk, license_key |-> _license_key(row, pk)]

attach_identity_columns(df) ==
  [i \in DOMAIN df |-> KeyedRow(df[i], _person_key(df[i]))] \o <<>>

\* the columns the fallback pass fills, by kind
FallbackTextColumns == {"qualification", "category", "name", "employee_id"}

FallbackDateColumns ==
  {"registration_date", "first_issue_date", "issue_date", "expiry_date"}

\* _has_data of a cell of the column
_has_data(column, value) ==
  IF column \in FallbackDateColumns THEN value # NULL ELSE strip(value) # <<>>

\* A row of a source frame as materialize_roster_all prepares it before the
\* concat.
SourceRow(r, source) ==
  [name |-> r.name, license_no |-> r.license_no, employee_id |-> r.employee_id,
   qualification |-> r.qualification, category |-> r.category,
   registration_date |-> r.registration_date,
   first_issue_date |-> r.first_issue_date,
   issue_date |-> r.issue_date, expiry_date |-> r.expiry_date,
   print_sheet |-> IF source = "manual" THEN _normalize_sheet(r.print_sheet)
                   ELSE DEFAULT_SHEET,
   source_sheet |-> IF source = "manual" THEN r.source_sheet ELSE <<>>,
   created |-> IF source = "manual" THEN r.created ELSE NULL,
   source |-> source]

SourceColumns(df, source) ==
  [i \in DOMAIN df |-> SourceRow(df[i], source)] \o <<>>

SourceFrame(table, source, wk) ==
  SourceColumns(_enrich_identity_fields(table, wk), source)

\* first non-null of the chain registration, issue, expiry, first issue,
\* last_updated
EffectiveDt(row, last_updated) ==
  IF row.registration_date # NULL THEN row.registration_date[1]
  ELSE IF row.issue_date # NULL THEN row.issue_date[1]
  ELSE IF row.expiry_date # NULL THEN row.expiry_date[1]
  ELSE IF row.first_issue_date # NULL THEN row.first_issue_date[1]
  ELSE last_updated

\* last_updated: created, else now
LastUpdated(row, now) == IF row.created = NULL THEN now ELSE row.created[1]

\* a keyed row with the helper columns of the sort
HelperRow(row, last_updated) ==
  [row EXCEPT !.print_sheet = _normalize_sheet(@)] @@
  [last_updated |-> last_updated,
   _effective_dt |-> EffectiveDt(row, last_updated),
   _source_rank |-> IF row.source = "ingest" THEN 0 ELSE 2]

HelperColumns(keyed, now) ==
  [i \in DOMAIN keyed |-> HelperRow(keyed[i], LastUpdated(keyed[i], now))] \o <<>>

\* The combined frame of materialize_roster_all up to the sort: both source
\* frames, enriched again as one, with the identity and helper columns.
Combined(base, manual, wk, now) ==
  HelperColumns(
    attach_identity_columns(
      _enrich_identity_fields(
        SourceFrame(base, "ingest", wk) \o SourceFrame(manual, "manual", wk), wk)),
    now)

\* Mutant: the effective date ascending.
RowLess_oldest_first(a, b, with_rank) ==
  \/ StrLess(a.license_key, b.license_key)
  \/ /\ a.license_key = b.license_key
     /\ \/ with_rank /\ a._source_rank < b._source_rank
        \/ /\ with_rank => a._source_rank = b._source_rank
           /\ \/ a._effective_dt < b._effective_dt
              \/ /\ a._effective_dt = b._effective_dt
                 /\ a.last_updated > b.last_updated

\* Order of sort_values(by=[license_key, _source_rank, _effective_dt,
\* last_updated], ascending=[True, True, False, False]); the sort of the
\* manual entries leaves _source_rank out.
RowLess(a, b, with_rank) ==
  \/ StrLess(a.license_key, b.license_key)
  \/ /\ a.license_key = b.license_key
     /\ \/ with_rank /\ a._source_rank < b._source_rank
        \/ /\ with_rank => a._source_rank = b._source_rank
           /\ \/ a._effective_dt > b._effective_dt
              \/ /\ a._effective_dt = b._effective_dt
                 /\ a.last_updated > b.last_updated

\* stable insertion: x goes behind every row that is not after it
RECURSIVE InsertRow(_, _, _)
InsertRow(srt, x, with_rank) ==
  IF srt = <<>> THEN <<x>>
  ELSE IF RowLess(x, Head(srt), with_rank) THEN <<x>> \o srt
  ELSE <<Head(srt)>> \o InsertRow(Tail(srt), x, with_rank)

RECURSIVE sort_values(_, _)
sort_values(df, with_rank) ==
  IF df = <<>> THEN <<>>
  ELSE InsertRow(sort_values(SubSeq(df, 1, Len(df) - 1), with_rank),
                 df[Len(df)], with_rank)

\* Mutant: the duplicates are dropped per license_key and source.
drop_duplicates_per_source(df) ==
  LET keep == {i \in DOMAIN df :
                 \A j \in 1..(i - 1) :
                    \/ df[j].license_key # df[i].license_key
                    \/ df[j].source # df[i].source}
      F[i \in 0..Len(df)] ==
        IF i = 0 THEN <<>>
        ELSE IF i \in keep THEN Append(F[i - 1], df[i]) ELSE F[i - 1]
  IN  F[Len(df)]

\* drop_duplicates(subset=["license_key"], keep="first")
drop_duplicates(df) ==
  LET keep == {i \in DOMAIN df :
                 \A j \in 1..(i - 1) : df[j].license_key # df[i].license_key}
      F[i \in 0..Len(df)] ==
        IF i = 0 THEN <<>>
        ELSE IF i \in keep THEN Append(F[i - 1], df[i]) ELSE F[i - 1]
  IN  F[Len(df)]

\* Mutant: the fallback looks at the ingest rows only.
FallbackValue_ingest_only(combined, lk, column) ==
  LET hits == {i \in DOMAIN combined :
                 /\ combined[i].license_key = lk
                 /\ combined[i].source = "ingest"
                 /\ _has_data(column, combined[i][column])}
  IN  IF hits = {} THEN NULL
      ELSE combined[CHOOSE i \in hits : \A j \in hits : i <= j][column]

\* grouped[column].apply(first value with data): the value of the first row
\* of the sorted frame with this license_key whose cell has data, else None
FallbackValue(combined, lk, column) ==
  LET hits == {i \in DOMAIN combined :
                 /\ combined[i].license_key = lk
                 /\ _has_data(column, combined[i][column])}
  IN  IF hits = {} THEN NULL
      ELSE combined[CHOOSE i \in hits : \A j \in hits : i <= j][column]

\* the field-level fallback pass over one authoritative row
FallbackRow(row, combined) ==
  [c \in DOMAIN row |->
     IF c \in FallbackTextColumns \cup FallbackDateColumns /\ ~_has_data(c, row[c])
     THEN FallbackValue(combined, row.license_key, c)
     ELSE row[c]]

FallbackPass(deduped, combined) ==
  [i \in DOMAIN deduped |-> FallbackRow(deduped[i], combined)] \o <<>>

\* Mutant: the last manual entry of the license_key, not the first.
ManualValue_last(manual_entries, lk, column) ==
  LET hits == {i \in DOMAIN manual_entries :
                 /\ manual_entries[i].license_key = lk
                 /\ strip(manual_entries[i][column]) # <<>>}
  IN  IF hits = {} THEN NULL
      ELSE manual_entries[CHOOSE i \in hits : \A j \in hits : i >= j][column]

\* sheet_map / source_map: per license_key the value of the first manual
\* entry whose cell is not blank
ManualValue(manual_entries, lk, column) ==
  LET hits == {i \in DOMAIN manual_entries :
                 /\ manual_entries[i].license_key = lk
                 /\ strip(manual_entries[i][column]) # <<>>}
  IN  IF hits = {} THEN NULL
      ELSE manual_entries[CHOOSE i \in hits : \A j \in hits : i <= j][column]

\* print_sheet, sheet_source and source_sheet of an authoritative row, given
\* the values of sheet_map and source_map for its license_key
SheetRow(row, sheet, src) ==
  [row @@ [sheet_source |-> "auto"] EXCEPT
     !.print_sheet = IF sheet # NULL THEN sheet ELSE @,
     !.sheet_source = IF sheet # NULL THEN "manual" ELSE @,
     !.source_sheet = IF src # NULL THEN src ELSE @]

SheetOverride(deduped, manual_entries) ==
  [i \in DOMAIN deduped |->
     SheetRow(deduped[i],
              ManualValue(manual_entries, deduped[i].license_key, "print_sheet"),
              ManualValue(manual_entries, deduped[i].license_key, "source_sheet"))] \o <<>>

\* the columns of a row of roster_all
OutputRow(r) ==
  [license_key |-> r.license_key, person_key |-> r.person_key,
   name |-> r.name, display_name |-> r.name, license_no |-> r.license_no,
   employee_id |-> r.employee_id, qualification |-> r.qualification,
   category |-> r.category, registration_date |-> r.registration_date,
   first_issue_date |-> r.first_issue_date, issue_date |-> r.issue_date,
   expiry_date |-> r.expiry_date, print_sheet |-> r.print_sheet,
   source_sheet |-> r.source_sheet, sheet_source |-> r.sheet_source,
   source |-> r.source, created |-> r.created, last_updated |-> r.last_updated]

\* the frame in the columns of roster_all
OutputFrame(df) == [i \in DOMAIN df |-> OutputRow(df[i])] \o <<>>

\* the rows of a keyed table in some order
RECURSIVE SetToSeq(_)
SetToSeq(S) ==
  IF S = {} THEN <<>>
  ELSE LET x == CHOOSE x \in S : TRUE IN <<x>> \o SetToSeq(S \ {x})

RECURSIVE Concat(_)
Concat(ss) == IF ss = <<>> THEN <<>> ELSE Head(ss) \o Concat(Tail(ss))

\* result.merge(over, on='person_key', how='left'): one row per matching
\* override row, or the row itself when none matches; then the non-blank
\* override values replace name and employee_id.
_apply_person_overrides(df, overrides) ==
  IF df = <<>> \/ overrides = {} THEN df
  ELSE Concat([i \in DOMAIN df |->
         LET ms == SetToSeq({o \in overrides : o.person_key = df[i].person_key})
         IN  IF ms = <<>> THEN <<df[i]>>
             ELSE [j \in DOMAIN ms |->
                     [df[i] EXCEPT
                        !.name = IF strip(ms[j].display_name) # <<>>
                                 THEN ms[j].display_name ELSE @,
                        !.employee_id = IF strip(ms[j].employee_id) # <<>>
                                        THEN ms[j].employee_id ELSE @]]])

\* _unique_strings: the distinct values in order of first appearance
RECURSIVE _unique_strings(_)
_unique_strings(values) ==
  IF values = <<>> THEN <<>>
  ELSE LET rest == _unique_strings(SubSeq(values, 1, Len(values) - 1))
           v == values[Len(values)]
       IN  IF \E i \in DOMAIN rest : rest[i] = v THEN rest ELSE Append(rest, v)

\* Mutant: seeding sets include back to TRUE on a key that has a row.
RECURSIVE _ensure_person_filters_upsert(_, _)
_ensure_person_filters_upsert(tbl, keys) ==
  IF keys = <<>> THEN tbl
  ELSE LET key == Head(keys)
       IN  _ensure_person_filters_upsert(
             IF key = <<>> THEN tbl
             ELSE {r \in tbl : r.person_key # key}
                    \cup {[person_key |-> key, include |-> TRUE]},
             Tail(keys))

\* The four filter tables have a primary key and are read by key only: each
\* is the set of its rows.
RECURSIVE _ensure_person_filters(_, _)
_ensure_person_filters(tbl, keys) ==
  IF keys = <<>> THEN tbl
  ELSE LET key == Head(keys)
       IN  _ensure_person_filters(
             IF key = <<>> \/ \E r \in tbl : r.person_key = key
             THEN tbl
             ELSE tbl \cup {[person_key |-> key, include |-> TRUE]},
             Tail(keys))

RECURSIVE _ensure_license_filters(_, _)
_ensure_license_filters(tbl, pairs) ==
  IF pairs = <<>> THEN tbl
  ELSE LET lk == Head(pairs)[1]
           pk == Head(pairs)[2]
       IN  _ensure_license_filters(
             IF lk = <<>> THEN tbl
             ELSE IF \A r \in tbl : r.license_key # lk
                  THEN tbl \cup {[license_key |-> lk, person_key |-> pk,
                                  include |-> TRUE]}
             ELSE IF pk # <<>>
                  THEN {IF r.license_key = lk
                        THEN [r EXCEPT !.person_key = pk] ELSE r : r \in tbl}
             ELSE tbl,
             Tail(pairs))

RECURSIVE _ensure_sheet_filters(_, _)
_ensure_sheet_filters(tbl, sheets) ==
  IF sheets = <<>> THEN tbl
  ELSE LET sheet == _normalize_sheet(Head(sheets))
       IN  _ensure_sheet_filters(
             IF \E r \in tbl : r.print_sheet = sheet THEN tbl
             ELSE tbl \cup {[print_sheet |-> sheet, include |-> TRUE]},
             Tail(sheets))

\* INSERT ... ON CONFLICT (license_key, print_sheet) DO NOTHING
RECURSIVE _ensure_sheet_membership(_, _)
_ensure_sheet_membership(tbl, memberships) ==
  IF memberships = <<>> THEN tbl
  ELSE LET m == Head(memberships)
           sheet == _normalize_sheet(m.print_sheet)
       IN  _ensure_sheet_membership(
             IF \E r \in tbl : /\ r.license_key = m.license_key
                                /\ r.print_sheet = sheet
             THEN tbl
             ELSE tbl \cup {[license_key |-> m.license_key,
                             person_key |-> m.person_key,
                             print_sheet |-> sheet, include |-> TRUE]},
             Tail(memberships))

\* the database clock: now() of the k-th insert into roster_manual, and now()
\* of a materialization that follows it
Created(k) == 2 * k

Now(k) == 2 * k + 1

\* The frames of materialize_roster_all once both tables hold a row or more:
\* memberships is the combined frame before the sort, deduped the frame that
\* is written to roster_all.
\* the frame behind the sort: first row per license_key, fallback pass,
\* sheet override, output columns, person overrides
Authoritative(ordered) ==
  _apply_person_overrides(
    OutputFrame(
      SheetOverride(
        FallbackPass(drop_duplicates(ordered), ordered),
        sort_values(SelectSeq(ordered, LAMBDA r : r.source = "manual"), FALSE))),
    roster_person_override)

FramesOf(combined) ==
  [memberships |-> combined, deduped |-> Authoritative(sort_values(combined, TRUE))]

MaterializedFrames(base, manual, now) ==
  FramesOf(Combined(base, manual, workers, now))

\* the tables materialize_roster_all writes, over the tables base and manual
\* as the calling handler left them, at the time now
MaterializedTables(base, manual, now) ==
  IF base = <<>> /\ manual = <<>>
  THEN /\ roster_all' = <<>>
       /\ UNCHANGED <<issue_person_filter, issue_license_filter,
                      issue_sheet_filter, issue_sheet_membership>>
  ELSE
  \E f \in {MaterializedFrames(base, manual, now)} :
      /\ issue_person_filter' =
           _ensure_person_filters(
             issue_person_filter,
             _unique_strings([i \in DOMAIN f.deduped |-> f.deduped[i].person_key]))
      /\ issue_license_filter' =
           _ensure_license_filters(
             issue_license_filter,
             [i \in DOMAIN f.deduped |->
                <<strip(f.deduped[i].license_key), strip(f.deduped[i].person_key)>>])
      /\ issue_sheet_filter' =
           _ensure_sheet_filters(
             issue_sheet_filter,
             _unique_strings([i \in DOMAIN f.memberships |->
                                _normalize_sheet(f.memberships[i].print_sheet)]))
      /\ issue_sheet_membership' =
           _ensure_sheet_membership(issue_sheet_membership, f.memberships)
      /\ roster_all' = f.deduped

materialize_roster_all(base, manual, now) ==
  /\ MaterializedTables(base, manual, now)
  /\ ret' = [op |-> "materialize_roster_all", status |-> "ok"]

\* db.to_duckdb: the table is dropped and written again from the frame; the
\* value is the new content of the table.
to_duckdb(df) == df

\* _coerce_optional_date: None, blank and unparseable values give None
_coerce_optional_date(value) ==
  IF value = NULL THEN NULL ELSE IF value[1] <= 0 THEN NULL ELSE value

\* DELETE FROM roster_manual WHERE license_no = ? AND name = ?
DeleteManualRows(tbl, license_clean, name_clean) ==
  SelectSeq(tbl, LAMBDA r : ~(r.license_no = license_clean /\ r.name = name_clean))

\* the row add_manual_qualification inserts for the arguments a, and the
\* table after its DELETE and INSERT
ManualRecord(a, sheet_value, created) ==
  [name |-> _clean_token(a.name), license_no |-> _clean_token(a.license_no),
   qualification |-> _clean_token(a.qualification),
   registration_date |-> _coerce_optional_date(a.registration_date),
   first_issue_date |-> _coerce_optional_date(a.first_issue_date),
   issue_date |-> _coerce_optional_date(a.issue_date),
   expiry_date |-> _coerce_optional_date(a.expiry_date),
   category |-> _clean_token(a.category),
   print_sheet |-> sheet_value,
   source_sheet |-> IF a.source_sheet # NULL THEN _clean_token(a.source_sheet)
                    ELSE sheet_value,
   employee_id |-> _normalize_employee_id(a.employee_id),
   created |-> <<created>>]

ManualAfterAdd(tbl, a, created) ==
  Append(DeleteManualRows(tbl, _clean_token(a.license_no), _clean_token(a.name)),
         ManualRecord(a,
                      IF a.print_sheet # NULL THEN _normalize_sheet(a.print_sheet)
                      ELSE DEFAULT_SHEET,
                      created))

add_manual_qualification(a) ==
  LET name_clean == _clean_token(a.name)
      license_clean == _clean_token(a.license_no)
      manual == ManualAfterAdd(roster_manual, a, Created(clock + 1))
  IN  IF name_clean = <<>> \/ license_clean = <<>>
      THEN /\ ret' = [op |-> "add_manual_qualification", status |-> "error"]
           /\ UNCHANGED <<vervars, whvars>>
      ELSE /\ clock' = clock + 1
           /\ roster_manual' = manual
           /\ UNCHANGED <<vervars, duevars, roster, workers, roster_person_override>>
           /\ materialize_roster_all(roster, manual, Now(clock + 1))

delete_manual_qualification(name, license_no) ==
  LET name_clean == _clean_token(name)
      license_clean == _clean_token(license_no)
      manual == DeleteManualRows(roster_manual, license_clean, name_clean)
  IN  IF name_clean = <<>> \/ license_clean = <<>>
      THEN /\ ret' = [op |-> "delete_manual_qualification", status |-> "error"]
           /\ UNCHANGED <<vervars, whvars>>
      ELSE /\ roster_manual' = manual
           /\ UNCHANGED <<vervars, duevars, roster, workers, roster_person_override, clock>>
           /\ materialize_roster_all(roster, manual, Now(clock))

\* INSERT ... ON CONFLICT(person_key) DO UPDATE, or DELETE when both values
\* are blank; roster_person_override is keyed by person_key and is the set of
\* its rows.
set_person_override(person_key, display_name, employee_id) ==
  LET name_clean == strip(display_name)
      emp_clean == strip(employee_id)
      others == {o \in roster_person_override : o.person_key # person_key}
  IN  IF person_key = <<>>
      THEN /\ ret' = [op |-> "set_person_override", status |-> "error"]
           /\ UNCHANGED <<vervars, whvars>>
      ELSE
      /\ roster_person_override' =
           IF name_clean = <<>> /\ emp_clean = <<>> THEN others
           ELSE others \cup {[person_key |-> person_key,
                              display_name |-> name_clean,
                              employee_id |-> emp_clean]}
      /\ ret' = [op |-> "set_person_override", status |-> "ok"]
      /\ UNCHANGED <<vervars, duevars, roster, workers, roster_manual, roster_all,
                     issue_person_filter, issue_license_filter,
                     issue_sheet_filter, issue_sheet_membership, clock>>

\* gui._run_ingest, from the normalized frame on: the roster table is written
\* again and roster_all materialized.
_run_ingest(roster_df) ==
  /\ roster' = to_duckdb(roster_df)
  /\ UNCHANGED <<vervars, duevars, workers, roster_manual, roster_person_override, clock>>
  /\ materialize_roster_all(to_duckdb(roster_df), roster_manual, Now(clock))

\* rows of a roster frame written by to_duckdb
RosterRecords ==
  { [name |-> <<"A", "B">>, license_no |-> <<"X", "-", "1">>, employee_id |-> <<>>,
     qualification |-> <<"Q">>, category |-> <<>>, registration_date |-> NULL,
     first_issue_date |-> NULL, issue_date |-> <<1>>, expiry_date |-> <<4>>],
    [name |-> <<>>, license_no |-> <<"x", "1", " ">>, employee_id |-> <<"0", "7">>,
     qualification |-> <<>>, category |-> <<"K">>, registration_date |-> NULL,
     first_issue_date |-> NULL, issue_date |-> NULL, expiry_date |-> NULL],
    [name |-> <<"B">>, license_no |-> <<>>, employee_id |-> <<>>,
     qualification |-> <<"Q">>, category |-> <<"J">>, registration_date |-> NULL,
     first_issue_date |-> NULL, issue_date |-> NULL, expiry_date |-> <<4>>] }

RosterFrames == UNION {[1..n -> RosterRecords] : n \in 0..MaxWhRows}


\* arguments of add_manual_qualification
ManualInputs ==
  { [name |-> <<"A", "B">>, license_no |-> <<"x", "1">>, qualification |-> <<>>,
     registration_date |-> NULL, first_issue_date |-> NULL, issue_date |-> NULL,
     expiry_date |-> <<0>>, category |-> <<"J">>, print_sheet |-> <<"N">>,
     source_sheet |-> NULL, employee_id |-> <<>>],
    [name |-> <<"B">>, license_no |-> <<"J", "2">>, qualification |-> <<"Q">>,
     registration_date |-> <<2>>, first_issue_date |-> NULL, issue_date |-> NULL,
     expiry_date |-> <<4>>, category |-> <<>>, print_sheet |-> NULL,
     source_sheet |-> <<" ">>, employee_id |-> <<"7">>],
    [name |-> <<" ">>, license_no |-> <<"J", "2">>, qualification |-> <<"Q">>,
     registration_date |-> NULL, first_issue_date |-> NULL, issue_date |-> NULL,
     expiry_date |-> NULL, category |-> <<>>, print_sheet |-> NULL,
     source_sheet |-> NULL, employee_id |-> <<>>] }

RunIngest == \E df \in RosterFrames : _run_ingest(df)

AddManual ==
  /\ clock < MaxAdds
  /\ \E a \in ManualInputs : add_manual_qualification(a)

DeleteManual ==
  \E a \in ManualInputs : delete_manual_qualification(a.name, a.license_no)

SetPersonOverride ==
  \E i \in DOMAIN roster_all, n \in {<<>>, <<"K">>} :
     /\ n # <<>> => Cardinality(roster_person_override) < MaxOverrides
     /\ set_person_override(roster_all[i].person_key, n, <<>>)

Materialize ==
  /\ UNCHANGED <<vervars, duevars, roster, workers, roster_manual,
                 roster_person_override, clock>>
  /\ materialize_roster_all(roster, roster_manual, Now(clock))

\* the warehouse handlers, run one after another
NextWh ==
  \/ RunIngest \/ AddManual \/ DeleteManual
  \/ SetPersonOverride \/ Materialize

\* the workers table as the workers command of the CLI left it: absent, or
\* with one worker
WorkerFrames ==
  { <<>>, <<[employee_id |-> <<"7">>, name |-> <<"K">>]>> }

\* a new database file, but for the workers table
InitWh == \E wk \in WorkerFrames : InitStore /\ InitWarehouse(wk)

SpecWh == InitWh /\ [][NextWh]_vars

\* arguments of add_manual_qualification that put a second manual row on a
\* license_key: the license number of the first input in another spelling,
\* on another sheet
SheetInputs ==
  { a \in ManualInputs : strip(a.name) # <<>> } \cup
  { [name |-> <<"A", "B">>, license_no |-> <<"X", "-", "1">>, qualification |-> <<>>,
     registration_date |-> <<1>>, first_issue_date |-> NULL, issue_date |-> NULL,
     expiry_date |-> NULL, category |-> <<>>, print_sheet |-> <<"K">>,
     source_sheet |-> NULL, employee_id |-> <<>>] }

AddManualSheet ==
  /\ clock < MaxSheetAdds
  /\ \E a \in SheetInputs : add_manual_qualification(a)

DeleteManualSheet ==
  \E a \in SheetInputs : delete_manual_qualification(a.name, a.license_no)

\* ingestion and manual entry, with several manual rows per license_key
NextSheet == RunIngest \/ AddManualSheet \/ DeleteManualSheet

SpecSheet == Init /\ [][NextSheet]_vars

\* the roster frames ingested next to a manual update or the due list: one
\* row with a name and a license number
DueRosterFrames ==
  {<<r>> : r \in {x \in RosterRecords : x.name # <<>> /\ x.license_no # <<>>}}

RunIngestDue == \E df \in DueRosterFrames : _run_ingest(df)

(***************************************************************************)
(* Manual row update (update_manual_qualification)                         *)
(***************************************************************************)
\* most manual rows written, by add or update, in one run
MaxManualWrites == 3

\* rows of ver_snapshots and ver_snapshot_records when uploads are repeated
MaxRepeatRows == 6

\* the empty text '' handed on as an argument: supplied, and blank
SuppliedText(v) == IF v = <<>> THEN <<" ">> ELSE v

\* Mutant: the arguments are handed on as given, without the stored values.
MergedArguments_supplied_only(u, row) ==
  [name |-> _clean_token(u.name), license_no |-> _clean_token(u.license_no),
   qualification |-> u.qualification,
   registration_date |-> u.registration_date,
   first_issue_date |-> u.first_issue_date,
   issue_date |-> u.issue_date,
   expiry_date |-> u.expiry_date,
   category |-> u.category,
   print_sheet |-> u.print_sheet,
   source_sheet |-> u.source_sheet,
   employee_id |-> u.employee_id]

\* the arguments update_manual_qualification hands to
\* add_manual_qualification: "x if x is not None else row.get(...)".  A
\* stored source_sheet is a text, the empty one included, never NULL.
MergedArguments(u, row) ==
  [name |-> _clean_token(u.name), license_no |-> _clean_token(u.license_no),
   qualification |-> IF u.qualification # NULL THEN u.qualification ELSE row.qualification,
   registration_date |-> IF u.registration_date # NULL THEN u.registration_date
                         ELSE row.registration_date,
   first_issue_date |-> IF u.first_issue_date # NULL THEN u.first_issue_date
                        ELSE row.first_issue_date,
   issue_date |-> IF u.issue_date # NULL THEN u.issue_date ELSE row.issue_date,
   expiry_date |-> IF u.expiry_date # NULL THEN u.expiry_date ELSE row.expiry_date,
   category |-> IF u.category # NULL THEN u.category ELSE row.category,
   print_sheet |-> IF u.print_sheet # NULL THEN u.print_sheet ELSE row.print_sheet,
   source_sheet |-> IF u.source_sheet # NULL THEN u.source_sheet
                    ELSE SuppliedText(row.source_sheet),
   employee_id |-> IF u.employee_id # NULL THEN u.employee_id ELSE row.employee_id]

\* SELECT ... FROM roster_manual WHERE license_no = ? AND name = ?
ExistingManual(tbl, license_clean, name_clean) ==
  SelectSeq(tbl, LAMBDA r : r.license_no = license_clean /\ r.name = name_clean)

\* the update from the stored row on: delete without refresh, then
\* add_manual_qualification with the merged arguments
UpdateExisting(u, merged) ==
  \E manual \in {ManualAfterAdd(roster_manual, merged, Created(clock + 1))} :
     /\ clock' = clock + 1
     /\ roster_manual' = manual
     /\ UNCHANGED <<vervars, duevars, roster, workers, roster_person_override>>
     /\ MaterializedTables(roster, manual, Now(clock + 1))
     /\ ret' = [op |-> "update_manual_qualification", status |-> "ok", args |-> u]

update_manual_qualification(u) ==
  IF \/ _clean_token(u.name) = <<>> \/ _clean_token(u.license_no) = <<>>
     \/ ExistingManual(roster_manual, _clean_token(u.license_no), _clean_token(u.name)) = <<>>
  THEN /\ ret' = [op |-> "update_manual_qualification", status |-> "error", args |-> u]
       /\ UNCHANGED <<vervars, whvars>>
  ELSE UpdateExisting(
         u,
         MergedArguments(
           u,
           ExistingManual(roster_manual, _clean_token(u.license_no),
                          _clean_token(u.name))[1]))

\* no optional argument supplied
NoArguments ==
  [qualification |-> NULL, registration_date |-> NULL, first_issue_date |-> NULL,
   issue_date |-> NULL, expiry_date |-> NULL, category |-> NULL,
   print_sheet |-> NULL, source_sheet |-> NULL, employee_id |-> NULL]

\* the optional arguments of an update: none, the print_sheet only, a date
\* and a text, a blank qualification with an employee id
UpdateFields ==
  { NoArguments,
    [NoArguments EXCEPT !.print_sheet = <<"K">>],
    [NoArguments EXCEPT !.expiry_date = <<5>>, !.category = <<"K">>],
    [NoArguments EXCEPT !.qualification = <<" ">>, !.employee_id = <<"0", "7">>] }

\* arguments of update_manual_qualification: the rows named by the manual
\* inputs, the name padded
UpdateInputs ==
  { [name |-> <<" ">> \o a.name, license_no |-> a.license_no] @@ f :
      a \in ManualInputs, f \in UpdateFields }

AddManualUpd ==
  /\ clock < MaxManualWrites
  /\ \E a \in ManualInputs : add_manual_qualification(a)

UpdateManual ==
  /\ clock < MaxManualWrites
  /\ \E u \in UpdateInputs : update_manual_qualification(u)

\* ingestion, manual entry and manual update
NextUpd == RunIngestDue \/ AddManualUpd \/ UpdateManual

SpecUpd == Init /\ [][NextUpd]_vars

(***************************************************************************)
(* Due list (write_due_tables, reapply_due_filters, set_person_filter)     *)
(*                                                                         *)
(* due_raw and due are the frames last written to the two tables; a table  *)
(* that was never written reads like an empty one.                         *)
(***************************************************************************)
\* most rows the frame of one write_due_tables call holds
MaxDueRows == 2

\* rows of the frame the due command hands over: a person with two licenses
\* in two spellings, and a person with an employee id on a named sheet
DueRecords ==
  { [name |-> <<"A", "B">>, license_no |-> <<"X", "-", "1">>, employee_id |-> <<>>,
     qualification |-> <<"Q">>, issue_date |-> NULL, expiry_date |-> <<3>>,
     print_sheet |-> NULL, display_name |-> NULL],
    [name |-> <<" ", "A_fw", " ", "B">>, license_no |-> <<"J", "2">>,
     employee_id |-> <<>>, qualification |-> <<"Q">>, issue_date |-> NULL,
     expiry_date |-> NULL, print_sheet |-> <<"K">>, display_name |-> NULL],
    [name |-> <<"B">>, license_no |-> <<"x", "1">>, employee_id |-> <<"7">>,
     qualification |-> <<>>, issue_date |-> <<1>>, expiry_date |-> <<4>>,
     print_sheet |-> <<"K">>, display_name |-> <<"K">>] }

DueFrames == UNION {[1..n -> DueRecords] : n \in 0..MaxDueRows}

\* one row of _normalize_due(attach_identity_columns(due_raw)): the keys are
\* computed again, whatever keys the row carried
DueKeyed(row, pk) ==
  [name |-> row.name, license_no |-> row.license_no, employee_id |-> row.employee_id,
   qualification |-> row.qualification, issue_date |-> row.issue_date,
   expiry_date |-> row.expiry_date, display_name |-> row.display_name,
   print_sheet |-> _normalize_sheet(row.print_sheet),
   person_key |-> pk, license_key |-> _license_key(row, pk)]

_normalize_due(df) ==
  [i \in DOMAIN df |-> DueKeyed(df[i], _person_key(df[i]))] \o <<>>

\* the orders in which a SELECT without ORDER BY may hand over the rows of a
\* keyed table
ScanOrders(tbl) ==
  {[i \in 1..Cardinality(tbl) |-> SetToSeq(tbl)[f[i]]] \o <<>> :
     f \in Permutations(1..Cardinality(tbl))}

\* the rows of issue_sheet_membership on the licenses of the frame: no other
\* row has a part in the expansion
MembershipOf(df) ==
  {m \in issue_sheet_membership :
     \E i \in DOMAIN df : strip(df[i].license_key) = strip(m.license_key)}

\* the rows of issue_sheet_membership that take part in the expansion
ActiveMembership(scan) ==
  SelectSeq(scan, LAMBDA m : strip(m.license_key) # <<>> /\ m.include)

\* sheet_lookup[lic]: the sheets of the license in order of first appearance
SheetsOf(membership, lic) ==
  _unique_strings(
    [i \in DOMAIN SelectSeq(membership, LAMBDA m : strip(m.license_key) = lic) |->
       _normalize_sheet(SelectSeq(membership, LAMBDA m : strip(m.license_key) = lic)[i].print_sheet)])

\* one row of a license group, once per sheet of sheets, or as it is
Replicated(row, sheets) ==
  IF sheets = <<>> THEN <<row>>
  ELSE [k \in DOMAIN sheets |-> [row EXCEPT !.print_sheet = sheets[k]]]

\* the groups of df.groupby("license_key", sort=False), one after another
ExpandedGroups(df, lics, membership) ==
  Concat([g \in DOMAIN lics |->
            Concat([i \in DOMAIN SelectSeq(df, LAMBDA r : strip(r.license_key) = lics[g]) |->
                      Replicated(
                        [SelectSeq(df, LAMBDA r : strip(r.license_key) = lics[g])[i]
                           EXCEPT !.license_key = lics[g]],
                        SheetsOf(membership, lics[g]))])])

\* drop_duplicates(subset=[license_key, print_sheet, person_key, license_no,
\* qualification], keep="first")
RECURSIVE DropDueDuplicates(_)
DropDueDuplicates(df) ==
  IF df = <<>> THEN <<>>
  ELSE LET rest == DropDueDuplicates(SubSeq(df, 1, Len(df) - 1))
           r == df[Len(df)]
       IN  IF \E i \in DOMAIN rest :
                 /\ rest[i].license_key = r.license_key
                 /\ rest[i].print_sheet = r.print_sheet
                 /\ rest[i].person_key = r.person_key
                 /\ rest[i].license_no = r.license_no
                 /\ rest[i].qualification = r.qualification
           THEN rest ELSE Append(rest, r)

\* _expand_due_sheets with the membership table read in the order scan
_expand_due_sheets(scan, df) ==
  IF df = <<>> \/ ActiveMembership(scan) = <<>> THEN df
  ELSE DropDueDuplicates(
         ExpandedGroups(df,
                        _unique_strings([i \in DOMAIN df |-> strip(df[i].license_key)]),
                        ActiveMembership(scan)))

\* display_name is the name where it is missing or blank
_ensure_display_names(df) ==
  [i \in DOMAIN df |->
     IF strip(df[i].display_name) = <<>>
     THEN [df[i] EXCEPT !.display_name = df[i].name] ELSE df[i]] \o <<>>

\* the frame write_due_tables writes to due_raw
DueEnriched(scan, due_in, overrides) ==
  _ensure_display_names(
    _apply_person_overrides(
      _ensure_display_names(_expand_due_sheets(scan, _normalize_due(due_in))),
      overrides))

\* COALESCE(f.include, TRUE) of the LEFT JOIN of a filter table
IncludedBy(matches) == \A f \in matches : f.include

\* the WHERE clause of the SELECT that fills due
PassesFilters(d, pf, lf, sf, sm) ==
  /\ IncludedBy({f \in pf : f.person_key = d.person_key})
  /\ IncludedBy({f \in lf : f.license_key = d.license_key})
  /\ IncludedBy({f \in sf : f.print_sheet = d.print_sheet})
  /\ IncludedBy({f \in sm : f.license_key = d.license_key /\ f.print_sheet = d.print_sheet})

\* a value sorts before another under ORDER BY ... ASC, NULL last
TextBefore(a, b) == a # NULL /\ (b = NULL \/ StrLess(a, b))

DateBefore(a, b) == a # NULL /\ (b = NULL \/ a[1] < b[1])

\* ORDER BY d.print_sheet, d.expiry_date, d.name
DueBefore(a, b) ==
  \/ TextBefore(a.print_sheet, b.print_sheet)
  \/ /\ a.print_sheet = b.print_sheet
     /\ \/ DateBefore(a.expiry_date, b.expiry_date)
        \/ /\ a.expiry_date = b.expiry_date
           /\ TextBefore(a.name, b.name)

\* the orders the ORDER BY allows for the rows: rows that tie come in any order
OrderedDue(rows) ==
  {[i \in DOMAIN rows |-> rows[f[i]]] \o <<>> :
     f \in {g \in Permutations(DOMAIN rows) :
              \A i, j \in DOMAIN rows : i < j => ~DueBefore(rows[g[j]], rows[g[i]])}}

\* the frames the filtering SELECT may return
FilteredDue(enriched, pf, lf, sf, sm) ==
  OrderedDue(SelectSeq(enriched, LAMBDA d : PassesFilters(d, pf, lf, sf, sm)))

\* the tables after _seed_filters and _seed_sheet_state
SeededFilters(enriched) ==
  [pf |-> IF enriched = <<>> THEN issue_person_filter
          ELSE _ensure_person_filters(
                 issue_person_filter,
                 _unique_strings([i \in DOMAIN enriched |-> enriched[i].person_key])),
   lf |-> IF enriched = <<>> THEN issue_license_filter
          ELSE _ensure_license_filters(
                 issue_license_filter,
                 [i \in DOMAIN enriched |->
                    <<strip(enriched[i].license_key), strip(enriched[i].person_key)>>]),
   sf |-> _ensure_sheet_filters(
            issue_sheet_filter,
            _unique_strings([i \in DOMAIN enriched |-> enriched[i].print_sheet])),
   sm |-> _ensure_sheet_membership(issue_sheet_membership, enriched)]

\* write_due_tables from the enriched frame on
WriteEnriched(enriched, t, op) ==
  \E filtered \in FilteredDue(enriched, t.pf, t.lf, t.sf, t.sm) :
     /\ issue_person_filter' = t.pf
     /\ issue_license_filter' = t.lf
     /\ issue_sheet_filter' = t.sf
     /\ issue_sheet_membership' = t.sm
     /\ due_raw' = enriched
     /\ due' = _ensure_display_names(
                 _apply_person_overrides(filtered, roster_person_override))
     /\ ret' = [op |-> op, status |-> "ok"]
     /\ UNCHANGED <<vervars, roster, workers, roster_manual, roster_person_override,
                    roster_all, clock>>

write_due_tables(due_in, op) ==
  \E scan \in ScanOrders(MembershipOf(_normalize_due(due_in))) :
    \E enriched \in {DueEnriched(scan, due_in, roster_person_override)} :
      \E t \in {SeededFilters(enriched)} : WriteEnriched(enriched, t, op)

\* reapply_due_filters: nothing without a due_raw table, else
\* write_due_tables over its rows
reapply_due_filters ==
  IF due_raw = <<>>
  THEN /\ ret' = [op |-> "reapply_due_filters", status |-> "ok"]
       /\ UNCHANGED <<vervars, whvars>>
  ELSE write_due_tables(due_raw, "reapply_due_filters")

\* set_person_filter: the row is seeded when missing, then include is set
set_person_filter(person_key, include) ==
  /\ issue_person_filter' =
       {IF f.person_key = person_key THEN [f EXCEPT !.include = include] ELSE f :
          f \in _ensure_person_filters(issue_person_filter, <<person_key>>)}
  /\ ret' = [op |-> "set_person_filter", status |-> "ok"]
  /\ UNCHANGED <<vervars, duevars, roster, workers, roster_manual,
                 roster_person_override, roster_all, issue_license_filter,
                 issue_sheet_filter, issue_sheet_membership, clock>>

WriteDue == \E due_in \in DueFrames : write_due_tables(due_in, "write_due_tables")

ReapplyDue == reapply_due_filters

\* the operator sets the filter of a person of the due list or of the roster
SetPersonFilter ==
  \E p \in {f.person_key : f \in issue_person_filter}, include \in BOOLEAN :
     set_person_filter(p, include)

NextDue ==
  \/ WriteDue \/ ReapplyDue \/ SetPersonFilter
  \/ RunIngestDue \/ Materialize

SpecDue == Init /\ [][NextDue]_vars

(***************************************************************************)
(* Snapshot diff (cli_diff)                                                *)
(***************************************************************************)
\* SELECT snapshot_id FROM ver_snapshots WHERE snapshot_date <= ? ORDER BY
\* snapshot_date DESC LIMIT 1: the ids the query can return; among
\* snapshots of one date the database is free to return any.
NearestSnapshots(snapshots, date) ==
  {snapshots[i].snapshot_id : i \in {k \in DOMAIN snapshots :
       /\ snapshots[k].snapshot_date <= date
       /\ \A j \in DOMAIN snapshots :
             snapshots[j].snapshot_date <= date =>
                snapshots[j].snapshot_date <= snapshots[k].snapshot_date}}

\* SELECT rec_key FROM ver_snapshot_records WHERE snapshot_id = ?, as a set
RecKeysOf(records, sid) ==
  {records[i].rec_key : i \in {k \in DOMAIN records : records[k].snapshot_id = sid}}

\* Mutant: removed lists every key of the from-snapshot.
KeyDiff_removed_all(set_a, set_b) ==
  [added |-> sorted(set_b \ set_a), removed |-> sorted(set_a)]

\* added = sorted(set_b - set_a), removed = sorted(set_a - set_b)
KeyDiff(set_a, set_b) ==
  [added |-> sorted(set_b \ set_a), removed |-> sorted(set_a \ set_b)]

\* what cli_diff returns and prints once both snapshots are resolved
DiffResult(date_from, date_to, sid_from, sid_to, d) ==
  [op |-> "cli_diff", status |-> "ok", code |-> 0,
   date_from |-> date_from, date_to |-> date_to,
   sid_from |-> <<sid_from>>, sid_to |-> <<sid_to>>,
   added |-> d.added, removed |-> d.removed,
   out |-> IF d.added = <<>> /\ d.removed = <<>> THEN "No differences." ELSE "diff"]

\* cli_diff: connects and runs the SELECTs; it never creates the tables, so
\* on a database without them the first query raises a catalog error.
cli_diff(date_from, date_to) ==
  /\ IF ~schema
     THEN ret' = [op |-> "cli_diff", status |-> "error", code |-> 1,
                  date_from |-> date_from, date_to |-> date_to,
                  sid_from |-> <<>>, sid_to |-> <<>>,
                  added |-> <<>>, removed |-> <<>>, out |-> "exception"]
     ELSE IF NearestSnapshots(ver_snapshots, date_from) = {}
             \/ NearestSnapshots(ver_snapshots, date_to) = {}
     THEN ret' = [op |-> "cli_diff", status |-> "ok", code |-> 2,
                  date_from |-> date_from, date_to |-> date_to,
                  sid_from |-> <<>>, sid_to |-> <<>>,
                  added |-> <<>>, removed |-> <<>>,
                  out |-> "Snapshots for the specified dates not found."]
     ELSE \E sid_from \in NearestSnapshots(ver_snapshots, date_from),
             sid_to \in NearestSnapshots(ver_snapshots, date_to) :
            ret' = DiffResult(date_from, date_to, sid_from, sid_to,
                              KeyDiff(RecKeysOf(ver_snapshot_records, sid_from),
                                      RecKeysOf(ver_snapshot_records, sid_to)))
  /\ UNCHANGED <<vervars, whvars>>

CliDiff == \E date_from, date_to \in 0..MaxDate : cli_diff(date_from, date_to)

\* ingestion in any date order, interleaved with diffs
NextDiff == IngestXls \/ IngestDf \/ CliDiff

SpecDiff == Init /\ [][NextDiff]_vars

(***************************************************************************)
(* Content hash of uploaded frames                                         *)
(***************************************************************************)
\* rows of the frames that are hashed: the rows of the uploads, and the
\* first of them with whitespace around its texts
HashRecords ==
  RawRecords \cup
  { [name |-> <<" ", "A", "B">>, license_no |-> <<"X", "1", " ">>,
     qualification |-> <<" ", "Q", " ">>, category |-> <<"J">>,
     first_issue_date |-> NULL, issue_date |-> <<1>>, expiry_date |-> <<5>>] }

HashFrames == UNION {[1..n -> HashRecords] : n \in 0..MaxRows}

\* _content_hash(_normalize_snapshot_df(df)) of two frames, as the ingest
\* functions compute it
ContentHashes ==
  \E a, b \in HashFrames :
     /\ ret' = [op |-> "_content_hash", a |-> a, b |-> b,
                hash_a |-> _content_hash(_normalize_snapshot_df(a)),
                hash_b |-> _content_hash(_normalize_snapshot_df(b))]
     /\ UNCHANGED <<vervars, whvars>>

NextHash == ContentHashes

SpecHash == Init /\ [][NextHash]_vars

(***************************************************************************)
(* Person key                                                              *)
(***************************************************************************)
\* rows handed to _person_key: each identity column missing (row.get gives
\* None), blank, padded, a null token, or a plain value
KeyRows ==
  [employee_id : {NULL, <<" ">>, <<"7">>, <<" ", "7">>, <<"N", "A">>},
   name : {NULL, <<"A", "B">>, <<" ", "A_fw", " ", "B">>, <<"n", "a", "n">>},
   license_no : {NULL, <<"x", "-", "1">>, <<"X", "1">>},
   qualification : {NULL, <<"Q">>},
   expiry_date : {NULL, <<5>>}]

\* _person_key(row) of one row
PersonKeyOf ==
  \E row \in KeyRows :
     /\ ret' = [op |-> "_person_key", row |-> row, key |-> _person_key(row)]
     /\ UNCHANGED <<vervars, whvars>>

NextKey == PersonKeyOf

SpecKey == Init /\ [][NextKey]_vars

(***************************************************************************)
(* Upload preview and commit (app.py)                                      *)
(***************************************************************************)
\* Mutant: the preview reads every assignment, closed ones included.
_diff_against_open_closed_too(df_norm) ==
  LET new_keys == CurrentKeys(df_norm)
      open_now == IF schema
                  THEN {ver_assignments[i].rec_key : i \in DOMAIN ver_assignments}
                  ELSE {}
  IN  [added |-> sorted(new_keys \ open_now), removed |-> sorted(open_now \ new_keys)]

\* _diff_against_open: new_keys are the rec_keys of the frame, open_now those
\* of SELECT ... FROM ver_assignments WHERE valid_to IS NULL (empty when the
\* query raises because the table is missing); added and removed are the
\* sorted set differences.
_diff_against_open(df_norm) ==
  LET new_keys == CurrentKeys(df_norm)
      open_now == IF schema
                  THEN {ver_assignments[i].rec_key :
                          i \in {j \in DOMAIN ver_assignments : ver_assignments[j].valid_to = NULL}}
                  ELSE {}
  IN  [added |-> sorted(new_keys \ open_now), removed |-> sorted(open_now \ new_keys)]

\* POST /ver/csv/preview: saves the upload under a token, normalizes it and
\* renders the diff; the page carries the token and the date to the commit.
ver_csv_preview(raw, date) ==
  /\ \E d \in {_diff_against_open(_normalize_snapshot_df(raw))} :
        ret' = [op |-> "preview", status |-> "ok", token |-> raw, date |-> date,
                added |-> d.added, removed |-> d.removed]
  /\ UNCHANGED <<vervars, whvars>>

\* POST /ver/csv/commit: reads the saved upload named by the token of the
\* preview page and ingests it under the date of the form.
ver_csv_commit ==
  /\ ret.op = "preview"
  /\ ingest_snapshot_df(ret.token, ret.date)

Preview == \E n \in FrameSizes : \E raw \in Frames(n), d \in Dates : ver_csv_preview(raw, d)

Commit == ver_csv_commit

\* uploads in any date order, each committed directly or after a preview
NextPreview == Preview \/ Commit \/ IngestDf

SpecPreview == Init /\ [][NextPreview]_vars

(***************************************************************************)
(* Repeated uploads                                                        *)
(***************************************************************************)
\* the frame sizes that leave room for a frame of MaxRows records to be
\* ingested twice
RepeatSizes ==
  {n \in 0..MaxRows :
     Len(ver_snapshots) + 1 + Len(ver_snapshot_records) + n <= MaxRepeatRows}

IngestXlsRepeat ==
  \E n \in RepeatSizes : \E raw \in Frames(n), d \in Dates : ingest_snapshot(raw, d)

IngestDfRepeat ==
  \E n \in RepeatSizes : \E raw \in Frames(n), d \in Dates : ingest_snapshot_df(raw, d)

\* sequential ingestion, snapshot dates in any order
NextRepeat == IngestXlsRepeat \/ IngestDfRepeat

SpecRepeat == Init /\ [][NextRepeat]_vars

(***************************************************************************)
(* As-of CSV files (csvdb.py) and the views that use them (app.py)         *)
(***************************************************************************)
\* the cells pandas.read_csv takes for missing values, among the texts of
\* the records
NaTokens == {NULL, <<"N", "A">>, <<"n", "a", "n">>}

\* a text cell written by to_csv and read back by read_csv
CsvText(v) == IF v \in NaTokens THEN NULL ELSE v

\* a date cell written by to_csv as an ISO date and read back through
\* pd.to_datetime(errors="coerce").dt.date
CsvDate(v) == CoerceDate(v)

\* the nine columns of the as-of SELECT, as write_asof_csv orders them and
\* read_asof_csv reads them back
CsvRow(row) ==
  [name |-> CsvText(row.name), license_no |-> CsvText(row.license_no),
   qualification |-> CsvText(row.qualification), category |-> CsvText(row.category),
   first_issue_date |-> CsvDate(row.first_issue_date),
   issue_date |-> CsvDate(row.issue_date), expiry_date |-> CsvDate(row.expiry_date),
   valid_from |-> row.valid_from, valid_to |-> row.valid_to]

\* the rows of a frame with their multiplicities: the views sort the rows by
\* name, qualification and license_no, so the order of the file plays no part
CsvFrame(rows) ==
  LET cells == {CsvRow(r) : r \in rows}
  IN  [c \in cells |-> Cardinality({r \in rows : CsvRow(r) = c})]

\* write_asof_csv: (over)writes the file of the date
write_asof_csv(files, rows, date) ==
  [d \in (DOMAIN files) \cup {date} |-> IF d = date THEN CsvFrame(rows) ELSE files[d]]

\* read_asof_csv: None when the file of the date does not exist
read_asof_csv(files, date) ==
  IF date \in DOMAIN files THEN <<files[date]>> ELSE NULL

\* df of ver_asof: the file of the date when there is one; else the result of
\* asof_dataframe, written to the file and read back; None when the query
\* raises because the tables are missing
ServedBy(files, date) ==
  IF read_asof_csv(files, date) # NULL
  THEN [files |-> files, rows |-> read_asof_csv(files, date)]
  ELSE IF schema
  THEN [files |-> write_asof_csv(files, AsOfJoin(ver_assignments, ver_persons, date), date),
        rows |-> read_asof_csv(
                   write_asof_csv(files, AsOfJoin(ver_assignments, ver_persons, date), date),
                   date)]
  ELSE [files |-> files, rows |-> NULL]

\* GET /ver/asof/<date>: renders the rows of df, none when df is None
ver_asof(date) ==
  /\ \E s \in {ServedBy(asof_csv, date)} :
        /\ asof_csv' = s.files
        /\ ret' = [op |-> "ver_asof", status |-> "ok", date |-> date,
                   rows |-> IF s.rows = NULL THEN CsvFrame({}) ELSE s.rows[1]]
  /\ UNCHANGED <<schema, ver_snapshots, ver_snapshot_records, ver_persons,
                 ver_assignments, seqs, running, whvars>>

\* POST /ver/snapshot: ingests the upload (ingest_snapshot for a workbook,
\* ingest_snapshot_df for a CSV file), then writes the as-of file of the
\* snapshot's date from asof_dataframe
ver_snapshot_post(raw, date) ==
  \E df \in {_normalize_snapshot_df(raw)} :
    \E open_map \in _open_assignments_for(ver_assignments, CurrentKeys(df)) :
       /\ IngestTables(df, date, open_map)
       /\ asof_csv' = write_asof_csv(asof_csv, AsOfJoin(ver_assignments', ver_persons', date),
                                      date)
       /\ UNCHANGED <<running, whvars>>

VerAsof == \E d \in 0..MaxDate : ver_asof(d)

VerSnapshotPost ==
  \E n \in FrameSizes : \E raw \in Frames(n), d \in Dates : ver_snapshot_post(raw, d)

\* uploads in any date order, interleaved with as-of views
NextCsv == VerSnapshotPost \/ VerAsof

SpecCsv == Init /\ [][NextCsv]_vars

(***************************************************************************)
(* Vocabulary of the properties                                            *)
(***************************************************************************)
Range(f) == {f[i] : i \in DOMAIN f}

IsOpen(a) == a.valid_to = NULL

\* a's validity range [valid_from, valid_to] contains day D
Covers(a, D) == a.valid_from <= D /\ (a.valid_to = NULL \/ a.valid_to[1] >= D)

\* the days on which two stored intervals can differ
Days == 0..(LastDate + 1)

\* the audit rows of the i-th ingested snapshot
SnapRecs(i) ==
  {r \in Range(ver_snapshot_records) : r.snapshot_id = ver_snapshots[i].snapshot_id}

SnapKeys(i) == {r.rec_key : r \in SnapRecs(i)}

NamedKeys(i) == {r.rec_key : r \in {x \in SnapRecs(i) : x.name /= NULL}}

SnapDate(i) == ver_snapshots[i].snapshot_date

\* the days D with d_i <= D < d_(i+1); for the last snapshot, d_n and d_n + 1
SnapDays(i) ==
  IF i < Len(ver_snapshots) THEN SnapDate(i)..(SnapDate(i + 1) - 1)
  ELSE SnapDate(i)..(SnapDate(i) + 1)

AsOfRows(D) == AsOfJoin(ver_assignments, ver_persons, D)

AsOfKeys(D) == {row.rec_key : row \in AsOfRows(D)}

(***************************************************************************)
(* C1: with sequential ingestion and strictly increasing snapshot dates,    *)
(* at most one ver_assignments row per rec_key has valid_to NULL.           *)
(***************************************************************************)
C1_AtMostOneOpenPerKey ==
  \A i, j \in DOMAIN ver_assignments :
     ( /\ ver_assignments[i].rec_key = ver_assignments[j].rec_key
       /\ IsOpen(ver_assignments[i])
       /\ IsOpen(ver_assignments[j]) ) => i = j

(***************************************************************************)
(* C2: with sequential ingestion and strictly increasing snapshot dates,    *)
(* no calendar day lies in the validity ranges of two rows of the same      *)
(* rec_key (an open row is unbounded on the right).                         *)
(***************************************************************************)
C2_IntervalsDisjoint ==
  \A i, j \in DOMAIN ver_assignments :
     ( /\ i /= j
       /\ ver_assignments[i].rec_key = ver_assignments[j].rec_key )
     => \A D \in Days : ~(Covers(ver_assignments[i], D) /\ Covers(ver_assignments[j], D))

(***************************************************************************)
(* C3: after snapshots 1..n with increasing dates, the as-of result for a   *)
(* day D in [d_i, d_(i+1)) has exactly one row for each rec_key of snapshot *)
(* i that carries a name, and no row for any other rec_key.                 *)
(***************************************************************************)
C3_AsOfIsRosterOfSnapshot ==
  \A i \in DOMAIN ver_snapshots : \A D \in SnapDays(i) :
     /\ \A k \in NamedKeys(i) :
          Cardinality({row \in AsOfRows(D) : row.rec_key = k}) = 1
     /\ AsOfKeys(D) \subseteq NamedKeys(i)

(***************************************************************************)
(* C4: a named rec_key present in each of snapshots 1..k and absent from    *)
(* snapshot k+1 is in the as-of result of d_k and of d_(k+1) - 1, and not   *)
(* in the as-of result of d_(k+1).                                          *)
(***************************************************************************)
PresentThenAbsent(k, key) ==
  /\ k \in DOMAIN ver_snapshots
  /\ k + 1 \in DOMAIN ver_snapshots
  /\ \A i \in 1..k : key \in NamedKeys(i)
  /\ key \notin SnapKeys(k + 1)

C5_ResultMatches ==
  (ret.op = "asof" /\ ret.status = "ok") =>
     /\ \A i \in DOMAIN ver_assignments :
          Cardinality({row \in ret.rows : row.assign_id = ver_assignments[i].assign_id})
            = IF Covers(ver_assignments[i], ret.date) THEN 1 ELSE 0
     /\ \A row \in ret.rows :
          \E i \in DOMAIN ver_assignments : row.assign_id = ver_assignments[i].assign_id

C5_AsOfExactAndReadOnly ==
  /\ []C5_ResultMatches
  /\ [][ret'.op = "asof" => UNCHANGED tables]_vars

C5_Witness ==
  /\ ret.op = "asof"
  /\ ret.status = "ok"
  /\ ret.rows /= {}
  /\ \E i \in DOMAIN ver_assignments : ~Covers(ver_assignments[i], ret.date)
  /\ \E i \in DOMAIN ver_assignments :
       ~IsOpen(ver_assignments[i]) /\ ver_assignments[i].valid_to[1] = ret.date

(***************************************************************************)
(* C6: asof_dataframe(D) returns an empty result, not an error, when no     *)
(* ingested snapshot is dated on or before D, also when nothing has been    *)
(* ingested yet.                                                            *)
(***************************************************************************)
C6_EmptyNotError ==
  ( /\ ret.op = "asof"
    /\ \A i \in DOMAIN ver_snapshots : SnapDate(i) > ret.date )
  => (ret.status = "ok" /\ ret.rows = {})

(***************************************************************************)
(* C7: once a ver_assignments row has a valid_to, no later ingestion, in    *)
(* any date order, changes any field of it, and no row is ever deleted.     *)
(***************************************************************************)
C7_Step ==
  \A i \in DOMAIN ver_assignments :
     \E j \in DOMAIN ver_assignments' :
        /\ ver_assignments'[j].assign_id = ver_assignments[i].assign_id
        /\ ~IsOpen(ver_assignments[i]) => ver_assignments'[j] = ver_assignments[i]

SnapContent(i) ==
  LET recs == SelectSeq(ver_snapshot_records,
                        LAMBDA r : r.snapshot_id = ver_snapshots[i].snapshot_id)
  IN  [n \in 1..Len(recs) |-> [recs[n] EXCEPT !.snapshot_id = 0]]

C8_Step ==
  /\ Len(ver_snapshots') = Len(ver_snapshots) + 1
  /\ SubSeq(ver_snapshots', 1, Len(ver_snapshots)) = ver_snapshots
  /\ \A i \in DOMAIN ver_snapshots :
        ver_snapshots[i].snapshot_id /= ver_snapshots'[Len(ver_snapshots')].snapshot_id
  /\ Len(ver_snapshot_records') >= Len(ver_snapshot_records)
  /\ SubSeq(ver_snapshot_records', 1, Len(ver_snapshot_records)) = ver_snapshot_records

C8_SameContentSameHash ==
  \A i, j \in DOMAIN ver_snapshots :
     SnapContent(i) = SnapContent(j) =>
        ver_snapshots[i].content_hash = ver_snapshots[j].content_hash

C8_SnapshotsAppendOnly == []C8_SameContentSameHash /\ [][C8_Step]_vars

C8_Witness ==
  \E i, j \in DOMAIN ver_snapshots :
     /\ i /= j
     /\ SnapContent(i) = SnapContent(j)
     /\ SnapContent(i) /= <<>>
     /\ ver_snapshots[i].snapshot_date = ver_snapshots[j].snapshot_date

(***************************************************************************)
(* C9: ver_persons holds exactly one row per distinct name_key among the    *)
(* non-empty names ever ingested; every assignment of that name_key carries *)
(* that person's id; persons are never deleted or renamed.                  *)
(***************************************************************************)
\* the name_key segment of a rec_key: the text before the first "|"
RECURSIVE NamePart(_)
NamePart(rk) ==
  IF rk = <<>> \/ Head(rk) = "|" THEN <<>> ELSE <<Head(rk)>> \o NamePart(Tail(rk))

IngestedNameKeys ==
  {name_key(r.name) : r \in {x \in Range(ver_snapshot_records) : strip(x.name) /= <<>>}}

C9_Inv ==
  /\ \A i, j \in DOMAIN ver_persons :
        ver_persons[i].name_key = ver_persons[j].name_key => i = j
  /\ {ver_persons[i].name_key : i \in DOMAIN ver_persons} = IngestedNameKeys
  /\ \A a \in Range(ver_assignments) : \E p \in Range(ver_persons) :
        p.person_id = a.person_id /\ p.name_key = NamePart(a.rec_key)

C9_Step ==
  /\ Len(ver_persons') >= Len(ver_persons)
  /\ SubSeq(ver_persons', 1, Len(ver_persons)) = ver_persons

C9_OnePersonPerNameKey == []C9_Inv /\ [][C9_Step]_vars

C9_Witness ==
  /\ \E r1, r2 \in Range(ver_snapshot_records) : \E p \in Range(ver_persons) :
        /\ r1.snapshot_id < r2.snapshot_id
        /\ r1.name /= r2.name
        /\ strip(r1.name) /= <<>>
        /\ name_key(r1.name) = name_key(r2.name)
        /\ p.name_key = name_key(r1.name)
        /\ p.name = r1.name
  /\ \E a1, a2 \in Range(ver_assignments) :
        a1.assign_id /= a2.assign_id /\ a1.person_id = a2.person_id

(***************************************************************************)
(* C10: after materialize_roster_all has run (on its own or at the end of  *)
(* a handler that changed roster or roster_manual), roster_all             *)
(* holds exactly one row per distinct license_key of the combined roster   *)
(* and roster_manual rows: no license_key twice, none of the input missing *)
(* and none that is not in the input.                                      *)
(***************************************************************************)
\* the license_key of every row of the combined input frame
InputLicenseKeys ==
  LET combined == Combined(roster, roster_manual, workers, Now(clock))
  IN  {combined[i].license_key : i \in DOMAIN combined}

C10_OneRowPerLicenseKey ==
  (ret.op = "materialize_roster_all" /\ ret.status = "ok") =>
     /\ \A i, j \in DOMAIN roster_all :
           i # j => roster_all[i].license_key # roster_all[j].license_key
     /\ {roster_all[i].license_key : i \in DOMAIN roster_all} = InputLicenseKeys

\* an ingest row and a manual row of one license_key were merged into one
\* row, next to a row of another key, with a person override in force
C10_Witness ==
  /\ ret.op = "materialize_roster_all" /\ ret.status = "ok"
  /\ \E i \in DOMAIN roster, j \in DOMAIN roster_manual :
        /\ license_key(roster[i].license_no) = license_key(roster_manual[j].license_no)
        /\ roster[i].license_no # roster_manual[j].license_no
  /\ Len(roster_all) >= 2
  /\ Len(roster_all) < Len(roster) + Len(roster_manual)
  /\ \E i \in DOMAIN roster_all, o \in roster_person_override :
        o.person_key = roster_all[i].person_key

(***************************************************************************)
(* C11: after materialize_roster_all, the row of roster_all for a          *)
(* license_key is taken from the first row of the combined input under     *)
(* the order source rank ascending (ingest 0 before manual 2), effective   *)
(* date descending, last_updated descending, and frame position for rows   *)
(* that tie: it has that row's source and last_updated and every value of  *)
(* that row that is not empty.  So an ingest row beats a manual row of the *)
(* same license_key, and of two rows of one source the one with the later  *)
(* effective date wins.  (name and employee_id are compared unless a       *)
(* person override replaces them; print_sheet and source_sheet belong to   *)
(* the sheet override.)                                                    *)
(***************************************************************************)
\* the combined input frame of the last materialization, in frame order
CombinedNow == Combined(roster, roster_manual, workers, Now(clock))

\* row a at position i comes before row b at position j
ComesBefore(a, i, b, j) ==
  \/ a._source_rank < b._source_rank
  \/ /\ a._source_rank = b._source_rank
     /\ \/ a._effective_dt > b._effective_dt
        \/ /\ a._effective_dt = b._effective_dt
           /\ \/ a.last_updated > b.last_updated
              \/ a.last_updated = b.last_updated /\ i < j

\* the position in the combined frame of the first row of the license_key
FirstOfKey(combined, lk) ==
  CHOOSE w \in DOMAIN combined :
    /\ combined[w].license_key = lk
    /\ \A j \in DOMAIN combined \ {w} :
          combined[j].license_key = lk =>
             ComesBefore(combined[w], w, combined[j], j)

\* a person override replaces this column of the row
Overridden(r, column) ==
  \E o \in roster_person_override :
     /\ o.person_key = r.person_key
     /\ \/ column = "name" /\ strip(o.display_name) # <<>>
        \/ column = "employee_id" /\ strip(o.employee_id) # <<>>

\* the row r of roster_all carries the row w of the combined frame
Carries(r, w) ==
  /\ r.source = w.source
  /\ r.last_updated = w.last_updated
  /\ r.license_no = w.license_no
  /\ \A c \in FallbackTextColumns \cup FallbackDateColumns :
        (_has_data(c, w[c]) /\ ~Overridden(r, c)) => r[c] = w[c]

C11_FirstRowIsAuthoritative ==
  (ret.op = "materialize_roster_all" /\ ret.status = "ok") =>
     LET combined == CombinedNow
     IN  \A i \in DOMAIN roster_all :
            /\ \E w \in DOMAIN combined :
                  combined[w].license_key = roster_all[i].license_key
            /\ Carries(roster_all[i],
                       combined[FirstOfKey(combined, roster_all[i].license_key)])

\* an ingest row won over a manual row of its license_key and of a later
\* effective date than another ingest row, and it is the second of two
\* ingest rows of that key, ahead by its effective date
C11_Witness ==
  /\ ret.op = "materialize_roster_all" /\ ret.status = "ok"
  /\ LET combined == CombinedNow
     IN  \E i \in DOMAIN roster_all, a, b, m \in DOMAIN combined :
            /\ a < b
            /\ combined[a].license_key = roster_all[i].license_key
            /\ combined[b].license_key = roster_all[i].license_key
            /\ combined[m].license_key = roster_all[i].license_key
            /\ combined[a].source = "ingest" /\ combined[b].source = "ingest"
            /\ combined[m].source = "manual"
            /\ combined[b]._effective_dt > combined[a]._effective_dt
            /\ combined[m]._effective_dt > combined[a]._effective_dt
            /\ FirstOfKey(combined, roster_all[i].license_key) = b
            /\ roster_all[i].source = "ingest"
            /\ roster_all[i].category = combined[b].category
            /\ combined[b].category # combined[a].category
            /\ combined[b].category # combined[m].category

(***************************************************************************)
(* C12: after materialize_roster_all, for every column of the fallback     *)
(* list and every row of roster_all: a value the authoritative row of the  *)
(* license_key has is kept; a value it lacks and some other row of the     *)
(* license_key (of any source) has is filled with a non-empty value of     *)
(* such a row.  (name and employee_id unless a person override replaces    *)
(* them.)                                                                  *)
(***************************************************************************)
\* the values with data that the rows of the license_key have in the column
GroupValues(combined, lk, c) ==
  {combined[j][c] : j \in {k \in DOMAIN combined :
                               /\ combined[k].license_key = lk
                               /\ _has_data(c, combined[k][c])}}

FilledOrKept(r, combined, c) ==
  LET w == combined[FirstOfKey(combined, r.license_key)]
  IN  IF _has_data(c, w[c]) THEN r[c] = w[c]
      ELSE GroupValues(combined, r.license_key, c) # {} =>
             r[c] \in GroupValues(combined, r.license_key, c)

C12_FieldFallback ==
  (ret.op = "materialize_roster_all" /\ ret.status = "ok") =>
     LET combined == CombinedNow
     IN  \A i \in DOMAIN roster_all :
           \A c \in FallbackTextColumns \cup FallbackDateColumns :
              ~Overridden(roster_all[i], c) => FilledOrKept(roster_all[i], combined, c)

\* the ingest row of a license_key has a qualification and no category, the
\* manual row has a category and no qualification: the output row has both
C12_Witness ==
  /\ ret.op = "materialize_roster_all" /\ ret.status = "ok"
  /\ LET combined == CombinedNow
     IN  \E i \in DOMAIN roster_all, a, b \in DOMAIN combined :
            /\ combined[a].license_key = roster_all[i].license_key
            /\ combined[b].license_key = roster_all[i].license_key
            /\ FirstOfKey(combined, roster_all[i].license_key) = a
            /\ combined[a].source = "ingest" /\ combined[b].source = "manual"
            /\ combined[a].qualification # <<>> /\ combined[a].category = <<>>
            /\ combined[b].qualification = <<>> /\ combined[b].category # <<>>
            /\ roster_all[i].qualification = combined[a].qualification
            /\ roster_all[i].category = combined[b].category
            /\ roster_all[i].source = "ingest"

(***************************************************************************)
(* C13: after materialize_roster_all, a row of roster_all whose            *)
(* license_key has a manual row carries the print_sheet of the manual row  *)
(* with the latest effective date (then the latest last_updated, then the  *)
(* first in the frame) and sheet_source "manual", whichever row is         *)
(* authoritative; a row whose license_key has no manual row has            *)
(* sheet_source "auto".                                                    *)
(***************************************************************************)
\* the positions of the manual rows of the license_key in the combined frame
ManualOfKey(combined, lk) ==
  {j \in DOMAIN combined :
     combined[j].license_key = lk /\ combined[j].source = "manual"}

\* the position of the manual row of the license_key that comes first
LatestManual(combined, lk) ==
  CHOOSE m \in ManualOfKey(combined, lk) :
    \A j \in ManualOfKey(combined, lk) \ {m} :
       ComesBefore(combined[m], m, combined[j], j)

C13_ManualSheetWins ==
  (ret.op = "materialize_roster_all" /\ ret.status = "ok") =>
     LET combined == CombinedNow
     IN  \A i \in DOMAIN roster_all :
            IF ManualOfKey(combined, roster_all[i].license_key) = {}
            THEN roster_all[i].sheet_source = "auto"
            ELSE /\ roster_all[i].sheet_source = "manual"
                 /\ roster_all[i].print_sheet =
                      combined[LatestManual(combined, roster_all[i].license_key)].print_sheet

\* an ingest row is authoritative for a license_key with two manual rows on
\* different sheets, the earlier inserted one having the later effective
\* date; another license_key has no manual row
C13_Witness ==
  /\ ret.op = "materialize_roster_all" /\ ret.status = "ok"
  /\ LET combined == CombinedNow
     IN  /\ \E i \in DOMAIN roster_all, a, b \in DOMAIN combined :
               /\ a < b
               /\ {a, b} \subseteq ManualOfKey(combined, roster_all[i].license_key)
               /\ combined[a].print_sheet # combined[b].print_sheet
               /\ combined[a]._effective_dt > combined[b]._effective_dt
               /\ roster_all[i].source = "ingest"
               /\ roster_all[i].sheet_source = "manual"
               /\ roster_all[i].print_sheet = combined[a].print_sheet
         /\ \E i \in DOMAIN roster_all :
               /\ ManualOfKey(combined, roster_all[i].license_key) = {}
               /\ roster_all[i].sheet_source = "auto"

(***************************************************************************)
(* C14: two frames that hold the same records, in any row order and with   *)
(* any whitespace around their texts, have the same content_hash after     *)
(* normalization.                                                          *)
(***************************************************************************)
\* the same record but for whitespace around the texts
SameRecord(r, q) ==
  /\ strip(r.name) = strip(q.name)
  /\ strip(r.license_no) = strip(q.license_no)
  /\ strip(r.qualification) = strip(q.qualification)
  /\ strip(r.category) = strip(q.category)
  /\ r.first_issue_date = q.first_issue_date
  /\ r.issue_date = q.issue_date
  /\ r.expiry_date = q.expiry_date

\* frame b holds the records of frame a in some order
SameRecordSet(a, b) ==
  /\ Len(a) = Len(b)
  /\ \E p \in Permutations(DOMAIN a) : \A i \in DOMAIN a : SameRecord(a[i], b[p[i]])

C14_HashOfRecordSet ==
  (ret.op = "_content_hash" /\ SameRecordSet(ret.a, ret.b)) =>
     ret.hash_a = ret.hash_b

\* the part that holds: frames whose records have distinct rec_keys
DistinctKeys(df) ==
  \A i, j \in DOMAIN df :
     i # j => _record_key(NormalizeRow(df[i])) # _record_key(NormalizeRow(df[j]))

C14_HashOfKeyedRecordSet ==
  (ret.op = "_content_hash" /\ SameRecordSet(ret.a, ret.b) /\ DistinctKeys(ret.a)) =>
     ret.hash_a = ret.hash_b

(***************************************************************************)
(* C15: a diff between the snapshots A (from) and B (to) lists as added    *)
(* the rec_keys of B that A lacks and as removed the rec_keys of A that B  *)
(* lacks; the two lists share no key, both are empty exactly when A and B  *)
(* have the same keys, and the diff from B to A has the two lists          *)
(* exchanged.                                                              *)
(***************************************************************************)
\* the rec_keys of the audit rows of the snapshot with this id
KeysOfSnapshot(sid) ==
  {r.rec_key : r \in {x \in Range(ver_snapshot_records) : x.snapshot_id = sid}}

C15_DiffIsSetDifference ==
  (ret.op = "cli_diff" /\ ret.status = "ok" /\ ret.code = 0) =>
     LET A == KeysOfSnapshot(ret.sid_from[1])
         B == KeysOfSnapshot(ret.sid_to[1])
         back == KeyDiff(B, A)
     IN  /\ Range(ret.added) = B \ A
         /\ Range(ret.removed) = A \ B
         /\ Range(ret.added) \cap Range(ret.removed) = {}
         /\ (ret.added = <<>> /\ ret.removed = <<>>) <=> (A = B)
         /\ back.removed = ret.added
         /\ back.added = ret.removed

\* a diff between two snapshots with a key added and another removed
C15_Witness ==
  /\ ret.op = "cli_diff" /\ ret.status = "ok" /\ ret.code = 0
  /\ ret.sid_from # ret.sid_to
  /\ ret.added # <<>>
  /\ ret.removed # <<>>
  /\ Len(ret.added) + Len(ret.removed) >= 3

(***************************************************************************)
(* C16: cli_diff resolves each of its two dates to a snapshot of the       *)
(* greatest snapshot_date on or before it; when one of the dates has no    *)
(* snapshot on or before it, the call returns exit code 2 with the "not    *)
(* found" message and no diff instead of raising; and a call never changes *)
(* the store.                                                              *)
(***************************************************************************)
\* the ingested snapshots dated on or before the day
SnapshotsUpTo(date) ==
  {x \in Range(ver_snapshots) : x.snapshot_date <= date}

\* the id is that of a snapshot of the greatest date on or before the day
ResolvesTo(sid, date) ==
  \E x \in SnapshotsUpTo(date) :
     /\ x.snapshot_id = sid
     /\ \A y \in SnapshotsUpTo(date) : y.snapshot_date <= x.snapshot_date

C16_Inv ==
  ret.op = "cli_diff" =>
     IF SnapshotsUpTo(ret.date_from) = {} \/ SnapshotsUpTo(ret.date_to) = {}
     THEN /\ ret.status = "ok"
          /\ ret.code = 2
          /\ ret.added = <<>> /\ ret.removed = <<>>
          /\ ret.out = "Snapshots for the specified dates not found."
     ELSE /\ ret.status = "ok"
          /\ ret.code = 0
          /\ ResolvesTo(ret.sid_from[1], ret.date_from)
          /\ ResolvesTo(ret.sid_to[1], ret.date_to)

C16_Step == ret'.op = "cli_diff" => UNCHANGED <<vervars, whvars>>

C16_DiffResolvesOrSignals == []C16_Inv /\ [][C16_Step]_vars

\* the part that holds: once an ingestion has created the tables
C16_AfterIngestion == [](schema => C16_Inv) /\ [][C16_Step]_vars

(***************************************************************************)
(* C17: an ingestion ends without error; its audit rows all carry the id   *)
(* of the new snapshot and their number is the snapshot's row_count, the   *)
(* rows without a name included; for every rec_key, the assignments it     *)
(* adds are one per audit row that has a name and whose rec_key had no     *)
(* open assignment before, so a row without a name adds none; and every    *)
(* added assignment has valid_from = snapshot_date and valid_to NULL.      *)
(***************************************************************************)
\* the rec_keys with an open assignment before the step
OpenKeys == {a.rec_key : a \in {x \in Range(ver_assignments) : x.valid_to = NULL}}

\* the audit rows and the assignments the step adds
NewRecords ==
  SubSeq(ver_snapshot_records', Len(ver_snapshot_records) + 1, Len(ver_snapshot_records'))

NewAssignments ==
  SubSeq(ver_assignments', Len(ver_assignments) + 1, Len(ver_assignments'))

C17_Step ==
  (Len(ver_snapshots') = Len(ver_snapshots) + 1) =>
     LET snap == ver_snapshots'[Len(ver_snapshots')]
         recs == NewRecords
         opened == NewAssignments
     IN  /\ ret'.op = "ingest" /\ ret'.status = "ok"
         /\ snap.row_count = Len(recs)
         /\ \A i \in DOMAIN recs : recs[i].snapshot_id = snap.snapshot_id
         /\ \A k \in {recs[i].rec_key : i \in DOMAIN recs}
                     \cup {opened[i].rec_key : i \in DOMAIN opened} :
               Cardinality({i \in DOMAIN opened : opened[i].rec_key = k})
                 = Cardinality({i \in DOMAIN recs :
                                  /\ recs[i].rec_key = k
                                  /\ recs[i].name # NULL
                                  /\ k \notin OpenKeys})
         /\ \A i \in DOMAIN opened :
               /\ opened[i].valid_from = snap.snapshot_date
               /\ opened[i].valid_to = NULL

C17_OneAssignmentPerNamedRecord == [][C17_Step]_vars

\* a snapshot of two audit rows, one without a name and without any
\* assignment, the other with an assignment opened on the snapshot date;
\* and a later snapshot whose only row found its assignment open
C17_Witness ==
  \E i, j \in DOMAIN ver_snapshots :
     /\ i < j
     /\ ver_snapshots[i].row_count = 2
     /\ \E r, q \in SnapRecs(i) :
           /\ r.name = NULL /\ q.name # NULL
           /\ \A a \in Range(ver_assignments) : a.rec_key # r.rec_key
           /\ \E a \in Range(ver_assignments) :
                 /\ a.rec_key = q.rec_key
                 /\ a.valid_from = SnapDate(i)
                 /\ a.valid_to = NULL
           /\ SnapKeys(j) = {q.rec_key}
     /\ Len(ver_assignments) = 1

(***************************************************************************)
(* C18: an ingestion is carried out whatever its snapshot_date: it ends    *)
(* without error, appends its snapshot with the date given, also when an   *)
(* ingested snapshot has a later date, and closes every open assignment    *)
(* whose rec_key the frame lacks on the day before that date, also when    *)
(* that day is before the assignment's valid_from.  So a state with an     *)
(* assignment whose valid_to is earlier than its valid_from is reachable.  *)
(***************************************************************************)
C18_Step ==
  (ver_snapshots' # ver_snapshots \/ ver_assignments' # ver_assignments) =>
     LET snap == ver_snapshots'[Len(ver_snapshots')]
     IN  /\ Len(ver_snapshots') = Len(ver_snapshots) + 1
         /\ ret'.op = "ingest" /\ ret'.status = "ok"
         /\ ret'.meta.snapshot_date = snap.snapshot_date
         /\ \A i \in DOMAIN ver_assignments :
               (ver_assignments[i].valid_to = NULL
                  /\ ver_assignments[i].rec_key \notin
                        {NewRecords[k].rec_key : k \in DOMAIN NewRecords}) =>
                ver_assignments'[i].valid_to = <<snap.snapshot_date - 1>>

C18_OutOfOrderNotRejected == [][C18_Step]_vars

\* the last snapshot is dated before an earlier ingested one, and an
\* assignment ends before it starts
C18_Witness ==
  /\ ret.op = "ingest" /\ ret.status = "ok"
  /\ \E i \in DOMAIN ver_snapshots :
        /\ i < Len(ver_snapshots)
        /\ SnapDate(Len(ver_snapshots)) < SnapDate(i)
        /\ \E a \in Range(ver_assignments) :
              /\ a.valid_to # NULL
              /\ a.valid_to[1] < a.valid_from
              /\ a.valid_from = SnapDate(i)
              /\ a.valid_to[1] = SnapDate(Len(ver_snapshots)) - 1

(***************************************************************************)
(* C19: with two ingestions under way on one store, the rows a call        *)
(* inserts are decided by the open_map it read, not by the table at the    *)
(* time of the INSERT: for every rec_key the call adds one open assignment *)
(* per named row of its frame whose rec_key was not in its open_map, also  *)
(* when the other call has opened that rec_key in between.  So when both   *)
(* calls read open_map for a rec_key that is not open before either        *)
(* inserts, both insert, and the table holds two assignments with valid_to *)
(* NULL for that rec_key.                                                  *)
(***************************************************************************)
OpenRows(asg, k) == {i \in DOMAIN asg : asg[i].rec_key = k /\ asg[i].valid_to = NULL}

NamedRowsOf(df, k) ==
  {i \in DOMAIN df : _record_key(df[i]) = k /\ strip(df[i].name) # <<>>}

C19_Step ==
  \A p \in Callers :
    (running[p].pc = "rows" /\ running'[p].pc = "close") =>
       \A k \in {ver_assignments'[i].rec_key : i \in DOMAIN ver_assignments'}
                \cup CurrentKeys(running[p].df) :
          Cardinality(OpenRows(ver_assignments', k)) =
             Cardinality(OpenRows(ver_assignments, k))
               + (IF k \in DOMAIN running[p].open_map THEN 0
                  ELSE Cardinality(NamedRowsOf(running[p].df, k)))

C19_InsertFollowsStaleOpenMap == [][C19_Step]_vars

\* both calls have inserted and neither has closed; each frame lists the
\* rec_key once, and the table holds two open assignments for it
C19_Witness ==
  /\ \A p \in Callers : running[p].pc = "close"
  /\ running[1].meta.snapshot_id # running[2].meta.snapshot_id
  /\ Len(ver_assignments) = 2
  /\ ver_assignments[1].rec_key = ver_assignments[2].rec_key
  /\ ver_assignments[1].valid_to = NULL /\ ver_assignments[2].valid_to = NULL
  /\ ver_assignments[1].assign_id # ver_assignments[2].assign_id
  /\ \A p \in Callers :
        Cardinality(NamedRowsOf(running[p].df, ver_assignments[1].rec_key)) = 1

(***************************************************************************)
(* C20: person_key follows a priority chain whose first source with a      *)
(* value wins: "emp:" + the employee id, else "name:" + name_key(name),    *)
(* else "lic:" + the normalized license number, else "anon:" + the digest  *)
(* of (qualification, expiry_date); a lower-priority column never changes  *)
(* the key of a row whose higher-priority column has a value, and every    *)
(* row has exactly one key.                                                *)
(*                                                                         *)
(* As stated, a source has a value when its text is not empty (not blank). *)
(* The code also counts the texts nan, none, null, na and <na>, in any     *)
(* case, as no value, and the employee id enters the key stripped.         *)
(***************************************************************************)
NonEmpty(v) == strip(v) # <<>>

Present(v) == NonEmpty(v) /\ lower(strip(v)) \notin NullTokens

EmpPrefix == <<"e", "m", "p", ":">>

NamePrefix == <<"n", "a", "m", "e", ":">>

LicPrefix == <<"l", "i", "c", ":">>

AnonPrefix == <<"a", "n", "o", "n", ":">>

\* the key the chain gives row when has_value tells which sources count
ChainKey(row, has_value(_)) ==
  IF has_value(row.employee_id) THEN EmpPrefix \o strip(row.employee_id)
  ELSE IF has_value(row.name) THEN NamePrefix \o name_key(row.name)
  ELSE IF has_value(row.license_no) THEN LicPrefix \o license_key(row.license_no)
  ELSE AnonPrefix \o (IF has_value(row.qualification) THEN strip(row.qualification) ELSE <<>>)
          \o <<"|">> \o DateText(row.expiry_date)

\* the source that decides the key of row, and its value
Deciding(row) ==
  IF Present(row.employee_id) THEN <<"employee_id", strip(row.employee_id)>>
  ELSE IF Present(row.name) THEN <<"name", name_key(row.name)>>
  ELSE IF Present(row.license_no) THEN <<"license_no", license_key(row.license_no)>>
  ELSE <<"anon", row.qualification, row.expiry_date>>

\* the statement with "non-empty" read as "not blank"
C20_FirstNonEmptyWins ==
  ret.op = "_person_key" => ret.key = ChainKey(ret.row, NonEmpty)

\* the statement with "non-empty" read as the code's _clean_token reads it
C20_FirstPresentWins ==
  ret.op = "_person_key" =>
     /\ ret.key = ChainKey(ret.row, Present)
     /\ \A other \in KeyRows :
           Deciding(other) = Deciding(ret.row) => _person_key(other) = ret.key
     /\ Len(ret.key) >= 4

\* the employee id is a null token, so the full-width, padded name decides
C20_Witness ==
  /\ ret.op = "_person_key"
  /\ ret.row.employee_id = <<"N", "A">>
  /\ ret.row.name = <<" ", "A_fw", " ", "B">>
  /\ ret.row.license_no = <<"X", "1">>
  /\ ret.key = <<"n", "a", "m", "e", ":", "A", "B">>

(***************************************************************************)
(* C21: a person filter the operator set to exclude survives re-seeding.   *)
(* Every write_due_tables, reapply_due_filters and materialize_roster_all  *)
(* (alone or at the end of an ingestion) leaves each issue_person_filter   *)
(* row that has include = FALSE as it is, one row per person_key, and the  *)
(* due table that write_due_tables / reapply_due_filters leaves holds no   *)
(* row of a person_key whose filter row has include = FALSE.               *)
(***************************************************************************)
Excluded(pf) == {f.person_key : f \in {x \in pf : ~x.include}}

SeedingOps == {"write_due_tables", "reapply_due_filters", "materialize_roster_all"}

C21_Step ==
  ret'.op \in SeedingOps =>
     /\ Excluded(issue_person_filter) \subseteq Excluded(issue_person_filter')
     /\ \A f, g \in issue_person_filter' : f.person_key = g.person_key => f = g
     /\ ret'.op # "materialize_roster_all" =>
           \A i \in DOMAIN due' : due'[i].person_key \notin Excluded(issue_person_filter')

C21_ExcludedPersonStaysOut == [][C21_Step]_vars

\* the excluded person is on the roster and in due_raw, the filters were
\* applied again, and due holds the other rows only
C21_Witness ==
  /\ ret.op = "reapply_due_filters"
  /\ due # <<>>
  /\ \E p \in Excluded(issue_person_filter) :
        /\ \E i \in DOMAIN due_raw : due_raw[i].person_key = p
        /\ \E i \in DOMAIN roster_all : roster_all[i].person_key = p
        /\ \A i \in DOMAIN due : due[i].person_key # p

(***************************************************************************)
(* C22: update_manual_qualification on a stored manual row keeps the       *)
(* stored value of every field whose argument is None and writes the       *)
(* supplied fields only; afterwards roster_manual holds exactly one row    *)
(* for the (name, license_no), and its other rows are as before.           *)
(***************************************************************************)
UpdatableFields ==
  {"qualification", "registration_date", "first_issue_date", "issue_date",
   "expiry_date", "category", "print_sheet", "source_sheet", "employee_id"}

\* the value add_manual_qualification stores for a supplied argument
StoredFor(field, value) ==
  CASE field \in {"registration_date", "first_issue_date", "issue_date", "expiry_date"}
         -> _coerce_optional_date(value)
    [] field = "print_sheet" -> _normalize_sheet(value)
    [] field = "employee_id" -> _normalize_employee_id(value)
    [] OTHER -> _clean_token(value)

RowsOfKey(tbl, u) ==
  ExistingManual(tbl, _clean_token(u.license_no), _clean_token(u.name))

C22_Step ==
  (ret'.op = "update_manual_qualification" /\ ret'.status = "ok") =>
     LET u == ret'.args
         before == RowsOfKey(roster_manual, u)
         after == RowsOfKey(roster_manual', u)
     IN  /\ Len(before) = 1
         /\ Len(after) = 1
         /\ \A f \in UpdatableFields :
               after[1][f] = IF u[f] = NULL THEN before[1][f] ELSE StoredFor(f, u[f])
         /\ Range(roster_manual') \ {after[1]} = Range(roster_manual) \ {before[1]}

C22_UpdateKeepsUnsuppliedFields == [][C22_Step]_vars

\* only print_sheet was supplied: the row has the new sheet and the dates,
\* the qualification and the employee id it was entered with
C22_Witness ==
  /\ ret.op = "update_manual_qualification" /\ ret.status = "ok"
  /\ ret.args.print_sheet = <<"K">> /\ ret.args.expiry_date = NULL
  /\ \E i \in DOMAIN roster_manual :
        /\ roster_manual[i].name = <<"B">>
        /\ roster_manual[i].license_no = <<"J", "2">>
        /\ roster_manual[i].print_sheet = <<"K">>
        /\ roster_manual[i].source_sheet = <<>>
        /\ roster_manual[i].registration_date = <<2>>
        /\ roster_manual[i].expiry_date = <<4>>
        /\ roster_manual[i].qualification = <<"Q">>
        /\ roster_manual[i].employee_id = <<"7">>
        /\ \E j \in DOMAIN roster_all :
              roster_all[j].license_no = <<"J", "2">> /\ roster_all[j].print_sheet = <<"K">>

(***************************************************************************)
(* C23: when an ingested snapshot repeats a rec_key that has an open       *)
(* assignment, the assignment's payload fields (license_no, qualification, *)
(* category, first_issue_date, issue_date, expiry_date) become those of    *)
(* the new record, its assign_id, person_id, rec_key, valid_from and       *)
(* valid_to (NULL) stay as they are, and no assignment is inserted for the *)
(* record.                                                                 *)
(***************************************************************************)
Payload(r) ==
  <<r.license_no, r.qualification, r.category, r.first_issue_date, r.issue_date,
    r.expiry_date>>

Identity(a) == <<a.assign_id, a.person_id, a.rec_key, a.valid_from, a.valid_to>>

RecordsOfKey(recs, k) == {i \in DOMAIN recs : recs[i].rec_key = k}

\* the open assignment at position i, whose rec_key the new snapshot repeats,
\* is updated in place by each of the records that repeat it
UpdatedInPlace(i) ==
  /\ Identity(ver_assignments'[i]) = Identity(ver_assignments[i])
  /\ \A j \in RecordsOfKey(NewRecords, ver_assignments[i].rec_key) :
        Payload(ver_assignments'[i]) = Payload(NewRecords[j])
  /\ \A j \in DOMAIN NewAssignments :
        NewAssignments[j].rec_key # ver_assignments[i].rec_key

C23_Step ==
  (Len(ver_snapshots') = Len(ver_snapshots) + 1) =>
     \A i \in DOMAIN ver_assignments :
        ( /\ ver_assignments[i].valid_to = NULL
          /\ RecordsOfKey(NewRecords, ver_assignments[i].rec_key) # {} )
        => UpdatedInPlace(i)

C23_RepeatedKeyUpdatesInPlace == [][C23_Step]_vars

\* the same for a rec_key with one open assignment and one record in the
\* new snapshot
C23_StepSingle ==
  (Len(ver_snapshots') = Len(ver_snapshots) + 1) =>
     \A i \in DOMAIN ver_assignments :
        ( /\ ver_assignments[i].valid_to = NULL
          /\ Cardinality(RecordsOfKey(NewRecords, ver_assignments[i].rec_key)) = 1
          /\ Cardinality(OpenRows(ver_assignments, ver_assignments[i].rec_key)) = 1 )
        => UpdatedInPlace(i)

C23_SingleKeyUpdatesInPlace == [][C23_StepSingle]_vars

(***************************************************************************)
(* C24: the close pass of an ingestion dated d sets valid_to = d - 1 on    *)
(* every assignment that was open and whose rec_key the snapshot lacks,    *)
(* and changes valid_to of no other assignment; the assignments the        *)
(* ingestion opens start on d.  So an interval closed by the ingestion     *)
(* ends on the day before the intervals it opens start.                    *)
(***************************************************************************)
C24_Step ==
  (Len(ver_snapshots') = Len(ver_snapshots) + 1) =>
     LET d == ver_snapshots'[Len(ver_snapshots')].snapshot_date
         keys == {NewRecords[k].rec_key : k \in DOMAIN NewRecords}
     IN  /\ \A i \in DOMAIN ver_assignments :
               ver_assignments'[i].valid_to =
                  IF ver_assignments[i].valid_to = NULL
                     /\ ver_assignments[i].rec_key \notin keys
                  THEN <<d - 1>>
                  ELSE ver_assignments[i].valid_to
         /\ \A j \in DOMAIN NewAssignments :
               /\ NewAssignments[j].valid_from = d
               /\ NewAssignments[j].valid_to = NULL
         /\ \A i \in DOMAIN ver_assignments, j \in DOMAIN NewAssignments :
               (ver_assignments[i].valid_to = NULL /\ ver_assignments'[i].valid_to # NULL)
               => /\ ver_assignments'[i].valid_to[1] + 1 = NewAssignments[j].valid_from
                  /\ ver_assignments'[i].rec_key # NewAssignments[j].rec_key

C24_CloseOnDayBefore == [][C24_Step]_vars

\* the last ingestion closed one interval on the day before its date and
\* opened another on its date
C24_Witness ==
  /\ ret.op = "ingest"
  /\ Len(ver_snapshots) >= 2
  /\ \E a, b \in Range(ver_assignments) :
        /\ a.valid_to = <<SnapDate(Len(ver_snapshots)) - 1>>
        /\ a.valid_from <= a.valid_to[1]
        /\ a.rec_key \notin SnapKeys(Len(ver_snapshots))
        /\ b.valid_from = SnapDate(Len(ver_snapshots))
        /\ b.valid_to = NULL
        /\ b.rec_key \in SnapKeys(Len(ver_snapshots))

(***************************************************************************)
(* C25: after every completed ingestion, in whatever order of snapshot     *)
(* dates, the rec_keys with an open assignment are the rec_keys of the     *)
(* records with a name in the snapshot ingested last.                      *)
(***************************************************************************)
C25_OpenKeysAreNamedKeysOfLast ==
  ver_snapshots # <<>> => OpenKeys = NamedKeys(Len(ver_snapshots))

\* the snapshot ingested last is dated before the first, lists a record
\* without a name next to a named one, and lacks the rec_key of the first
C25_Witness ==
  /\ Len(ver_snapshots) >= 2
  /\ SnapDate(Len(ver_snapshots)) < SnapDate(1)
  /\ NamedKeys(Len(ver_snapshots)) # {}
  /\ NamedKeys(Len(ver_snapshots)) # SnapKeys(Len(ver_snapshots))
  /\ NamedKeys(1) \ SnapKeys(Len(ver_snapshots)) # {}
  /\ OpenKeys = NamedKeys(Len(ver_snapshots))

(***************************************************************************)
(* C26: with sequential ingestion and strictly increasing snapshot dates,  *)
(* every assignment with a valid_to has valid_from <= valid_to: no empty   *)
(* or inverted interval is stored.                                         *)
(***************************************************************************)
C26_NoInvertedInterval ==
  \A a \in Range(ver_assignments) : a.valid_to # NULL => a.valid_from <= a.valid_to[1]

\* an interval of one day: opened on d and closed by the snapshot of d + 1
C26_Witness ==
  \E a \in Range(ver_assignments) :
     /\ a.valid_to # NULL
     /\ a.valid_from = a.valid_to[1]
     /\ \E i \in DOMAIN ver_snapshots :
           SnapDate(i) = a.valid_from + 1 /\ a.rec_key \notin SnapKeys(i)

(***************************************************************************)
(* C27: an as-of query returns the payload now stored on the interval, not *)
(* the payload as of the queried date: once the latest snapshot has        *)
(* repeated a rec_key that was open, a query for a date from the opening   *)
(* snapshot's date on returns an open row of that rec_key that carries the *)
(* payload of the latest snapshot's record and the valid_from of the       *)
(* snapshot that opened it.                                                *)
(***************************************************************************)
\* the record of the i-th ingested snapshot that the loop handles last for k
LastRecordOf(i, k) ==
  ver_snapshot_records[CHOOSE x \in DOMAIN ver_snapshot_records :
     /\ ver_snapshot_records[x] \in SnapRecs(i)
     /\ ver_snapshot_records[x].rec_key = k
     /\ \A y \in DOMAIN ver_snapshot_records :
           (ver_snapshot_records[y] \in SnapRecs(i) /\ ver_snapshot_records[y].rec_key = k)
              => y <= x]

\* the snapshot since which every ingested snapshot lists k
OpenedBy(k) ==
  CHOOSE i \in DOMAIN ver_snapshots :
     /\ \A j \in i..Len(ver_snapshots) : k \in SnapKeys(j)
     /\ i > 1 => k \notin SnapKeys(i - 1)

\* the rec_keys that were open when the latest snapshot repeated them
RepeatedOpenKeys ==
  IF Len(ver_snapshots) < 2 THEN {}
  ELSE NamedKeys(Len(ver_snapshots) - 1) \cap SnapKeys(Len(ver_snapshots))

C27_AsOfReturnsStoredPayload ==
  (ret.op = "asof" /\ ret.status = "ok") =>
     \A k \in RepeatedOpenKeys :
        SnapDate(OpenedBy(k)) <= ret.date =>
           \E row \in ret.rows :
              /\ row.rec_key = k
              /\ row.valid_to = NULL
              /\ row.valid_from = SnapDate(OpenedBy(k))
              /\ Payload(row) = Payload(LastRecordOf(Len(ver_snapshots), k))

\* as_of(d_1) after snapshot 2 changed the expiry_date of a rec_key that
\* snapshot 1 opened: the row has the later value and valid_from d_1
C27_Witness ==
  /\ ret.op = "asof" /\ ret.status = "ok"
  /\ Len(ver_snapshots) = 2
  /\ ret.date = SnapDate(1) /\ SnapDate(1) < SnapDate(2)
  /\ \E k \in RepeatedOpenKeys :
        /\ LastRecordOf(1, k).expiry_date # LastRecordOf(2, k).expiry_date
        /\ \E row \in ret.rows :
              /\ row.rec_key = k
              /\ row.valid_from = SnapDate(1)
              /\ row.expiry_date = LastRecordOf(2, k).expiry_date

(***************************************************************************)
(* C28: the upload preview agrees with the commit.  When the upload of a   *)
(* preview page is committed with no ingestion in between and each of its  *)
(* records has a name, the page's added list is the sorted set of rec_keys *)
(* the commit inserts assignments for, and its removed list the sorted set *)
(* of rec_keys whose open assignments the commit closes; the preview       *)
(* changes no stored state.                                                *)
(***************************************************************************)
\* the step ingests the upload that the preview page in ret shows
CommitsPreviewed ==
  /\ ret.op = "preview"
  /\ Len(ver_snapshots') = Len(ver_snapshots) + 1
  /\ NewRecords = _write_snapshot_records(<<>>, ver_snapshots'[Len(ver_snapshots')].snapshot_id,
                                          _normalize_snapshot_df(ret.token))
  /\ ver_snapshots'[Len(ver_snapshots')].snapshot_date = ret.date

InsertedKeys == {NewAssignments[i].rec_key : i \in DOMAIN NewAssignments}

ClosedKeys ==
  {ver_assignments[i].rec_key :
     i \in {j \in DOMAIN ver_assignments :
              ver_assignments[j].valid_to = NULL /\ ver_assignments'[j].valid_to # NULL}}

C28_Step ==
  /\ (CommitsPreviewed /\ \A i \in DOMAIN NewRecords : NewRecords[i].name # NULL) =>
        /\ ret.added = sorted(InsertedKeys)
        /\ ret.removed = sorted(ClosedKeys)
  /\ (ret'.op = "preview") => UNCHANGED <<vervars, whvars>>

Content(r) == <<r.name, r.rec_key, Payload(r)>>

LastRecords ==
  SelectSeq(ver_snapshot_records,
            LAMBDA r : r.snapshot_id = ver_snapshots[Len(ver_snapshots)].snapshot_id)

\* the step ingests the records of the latest snapshot again, same or later date
Reingests ==
  /\ ver_snapshots # <<>>
  /\ Len(ver_snapshots') = Len(ver_snapshots) + 1
  /\ [i \in DOMAIN NewRecords |-> Content(NewRecords[i])]
        = [i \in DOMAIN LastRecords |-> Content(LastRecords[i])]
  /\ ver_snapshots'[Len(ver_snapshots')].snapshot_date >= LastDate

Idempotent ==
  /\ ver_assignments' = ver_assignments
  /\ ver_persons' = ver_persons
  /\ SubSeq(ver_snapshots', 1, Len(ver_snapshots)) = ver_snapshots
  /\ SubSeq(ver_snapshot_records', 1, Len(ver_snapshot_records)) = ver_snapshot_records
  /\ Len(NewRecords) = Len(LastRecords)

C29_Step == Reingests => Idempotent

C29_ReingestIsIdempotent == [][C29_Step]_vars

\* the same for snapshots that list no rec_key twice
C29_StepDistinct ==
  ( /\ Reingests
    /\ \A i, j \in DOMAIN NewRecords :
          NewRecords[i].rec_key = NewRecords[j].rec_key => i = j )
  => Idempotent

C29_DistinctKeysIdempotent == [][C29_StepDistinct]_vars

(***************************************************************************)
(* C30: the as-of CSV files are coherent with the store: after any         *)
(* sequence of snapshot uploads and as-of views, the rows the              *)
(* /ver/asof/<date> view serves are the rows asof_dataframe(date) returns  *)
(* on the store as it is.                                                  *)
(***************************************************************************)
C30_ViewServesStoreRows ==
  (ret.op = "ver_asof" /\ schema) => ret.rows = CsvFrame(AsOfRows(ret.date))

\* the same for a view that finds no file of its date, or a file that the
\* upload of a snapshot of that date wrote last
C30_FreshFileServesStoreRows ==
  \A d \in DOMAIN asof_csv :
     (ver_snapshots # <<>> /\ SnapDate(Len(ver_snapshots)) = d /\ ret.op = "ingest")
        => asof_csv[d] = CsvFrame(AsOfRows(d))

====
